---- MODULE Spec2Model ----
(***************************************************************************)
(* Model of the cooperative scan (tiled inclusive/exclusive scan built on  *)
(* the double-buffered small-group scan), of the in-place small-group      *)
(* scans, and of the bounded serial merge and cooperative tiled merge.     *)
(*                                                                         *)
(* Scan values are words over integers and the binary operation is word    *)
(* concatenation: the free monoid.  Input element i is the one-letter word *)
(* <<i+1>> and the initial value is <<0>>, so a result word spells out the *)
(* exact order in which init and the inputs were combined.  The code never *)
(* branches on a value, hence what holds for these words holds for every   *)
(* associative operation (by the homomorphism from the free monoid).       *)
(*                                                                         *)
(* Agents are modelled one by one: an agent step executes the code between *)
(* two barriers, and the barrier opens when every agent of the group has   *)
(* arrived, so all interleavings of the agents inside a phase are explored.*)
(* Each agent records the locations it reads and writes between two        *)
(* barriers and counts its barrier calls.                                  *)
(***************************************************************************)
EXTENDS Integers, Sequences, FiniteSets, TLC

\* ---------------------------------------------------------------- bounds
MaxN == 3
MaxG == 2
MaxLen == 7

\* ---------------------------------------------------------------- helpers
Min(a, b) == IF a < b THEN a ELSE b

Max(a, b) == IF a > b THEN a ELSE b

\* binary_op: an associative, non-commutative operation (concatenation)
Op(l, r) == l \o r

\* values uninitialised memory may hold: the identity or a foreign letter
GarbageVals == { << >>, << -1 >> }

Scenarios == { "inclusive", "exclusive", "noinit", "pair" }

VARIABLES
  groupsize,     \* template parameter groupsize (number of agents)
  grainsize,     \* template parameter grainsize
  input,         \* the input range, a function on 0..L-1
  scenario,      \* which entry points the caller invokes
  split,         \* the caller scans [0,split) and then [split,L)
  garbage,       \* what freshly allocated memory holds
  callNo,        \* 1 or 2: the call the group is executing
  init,          \* init[t]: the init argument agent t passes to the call
  buffer,        \* the scratch buffer: 2*groupsize sums, then the staging area
  out,           \* out[d]: output range d (1 or 2), a function on 0..L-1
  pc,            \* pc[t]: the code segment agent t executes next
  arrived,       \* arrived[t]: agent t is blocked in g.wait()
  first,         \* first[t]: agent t's copy of the iterator first (an index)
  carry_in,      \* carry_in[t]
  x,             \* x[t] of the tiled scan
  local_inputs,  \* local_inputs[t][i]
  sx,            \* x of small_inplace_exclusive_scan_with_buffer
  sresult,       \* result of small_inplace_exclusive_scan_with_buffer
  ping,          \* ping[t]: base index of the buffer holding current data
  pong,          \* pong[t]
  offset,        \* offset[t]: stride of the current round
  apps,          \* the applications <<l, r>> of binary_op made by the last step
  waits,         \* waits[t]: the barrier calls agent t has made in this call
  allocated,     \* allocated[t]: agent t holds the buffer of bulk::malloc
  rd,            \* rd[t]: the locations agent t has read since the last barrier
  wr             \* wr[t]: the locations agent t has written since the last barrier

scanVars == << groupsize, grainsize, input, scenario, split, garbage, callNo, init,
               buffer, out, pc, arrived, first, carry_in, x, local_inputs, sx,
               sresult, ping, pong, offset, apps, waits, allocated, rd, wr >>

VARIABLES
  range1,   \* the array first1 points into
  range2,   \* the array first2 points into
  bound,    \* template parameter bound
  bm        \* the locals of bounded_merge (see BMInit)

bmVars == << range1, range2, bound, bm >>

VARIABLES
  aKeys,         \* aKeys_global, the first sorted input
  bKeys,         \* bKeys_global, the second sorted input
  NT,            \* threads per block (groupsize of the execution group)
  VT,            \* values per thread (grainsize)
  block,         \* blockIdx.x
  keys_shared,   \* s_keys[NT * VT]
  keys_global,   \* the output
  local_result,  \* local_result[t][0 .. VT-1] of bounded_inplace_merge
  mpc,           \* mpc[t]: the code segment thread t executes next
  marrived,      \* marrived[t]: thread t is blocked in the barrier
  local_offset1, \* local_offset1[t] of bounded_inplace_merge
  local_offset2, \* local_offset2[t] of bounded_inplace_merge
  m_waits,       \* m_waits[t]: the barrier calls thread t has made
  m_rd,          \* m_rd[t]: indices of s_keys thread t has read since the last barrier
  m_wr           \* m_wr[t]: indices of s_keys thread t has written since the last barrier

mergeVars == << aKeys, bKeys, NT, VT, block, keys_shared, keys_global,
                local_result, mpc, marrived, local_offset1, local_offset2,
                m_waits, m_rd, m_wr >>

VARIABLES
  s_fn,        \* the function the group calls
  s_size,      \* the number of agents of the group
  s_n,         \* the argument n
  s_data,      \* the array first points to
  s_pc,        \* s_pc[t]: the code segment agent t executes next
  s_arrived,   \* s_arrived[t]: agent t is blocked in g.wait()
  s_x,         \* s_x[t]: the local x
  s_offset,    \* s_offset[t]: the loop variable offset
  s_result,    \* s_result[t]: the value small_exclusive_scan_n returns to agent t
  s_rounds,    \* s_rounds[t]: the loop iterations agent t has completed
  s_waits,     \* s_waits[t]: the barrier calls agent t has made
  s_rd,        \* s_rd[t]: the indices agent t has read since the last barrier
  s_wr,        \* s_wr[t]: the indices agent t has written since the last barrier
  s_written,   \* the indices of first written since entry
  s_buffer,    \* the array buffer points to
  s_ping,      \* s_ping[t]: the local pointer ping, as a location
  s_pong,      \* s_pong[t]: the local pointer pong, as a location
  s_call,      \* the call of the caller that is running: 1 or 2
  s_ref        \* what the first call left in first and returned to each agent

bufVars == << s_buffer, s_ping, s_pong, s_call, s_ref >>

smallVars == << s_fn, s_size, s_n, s_data, s_pc, s_arrived, s_x, s_offset, s_result,
                s_rounds, s_waits, s_rd, s_wr, s_written, bufVars >>

vars == << scanVars, bmVars, mergeVars, smallVars >>

\* what the variables of a part of the program hold while another part runs
IdleScan ==
  /\ groupsize = 1 /\ grainsize = 1 /\ input = << >> /\ scenario = "noinit"
  /\ split = 0 /\ garbage = << >> /\ callNo = 1 /\ init = << >> /\ buffer = << >>
  /\ out = << >> /\ pc = [t \in 0 .. 0 |-> "idle"]
  /\ arrived = [t \in 0 .. 0 |-> FALSE] /\ first = << >>
  /\ carry_in = << >> /\ x = << >> /\ local_inputs = << >> /\ sx = << >>
  /\ sresult = << >> /\ ping = << >> /\ pong = << >> /\ offset = << >>
  /\ apps = {} /\ waits = << >> /\ allocated = << >> /\ rd = << >> /\ wr = << >>

IdleBM ==
  /\ range1 = << >> /\ range2 = << >> /\ bound = 1
  /\ bm = [pc |-> "idle"]

IdleMerge ==
  /\ aKeys = << >> /\ bKeys = << >> /\ NT = 1 /\ VT = 1 /\ block = 0
  /\ keys_shared = << >> /\ keys_global = << >> /\ local_result = << >>
  /\ mpc = [t \in 0 .. 0 |-> "idle"] /\ marrived = [t \in 0 .. 0 |-> FALSE]
  /\ local_offset1 = << >> /\ local_offset2 = << >>
  /\ m_waits = << >> /\ m_rd = << >> /\ m_wr = << >>

IdleSmall ==
  /\ s_fn = "none" /\ s_size = 1 /\ s_n = 0 /\ s_data = << >>
  /\ s_pc = [t \in 0 .. 0 |-> "idle"] /\ s_arrived = [t \in 0 .. 0 |-> FALSE]
  /\ s_x = << >> /\ s_offset = << >> /\ s_result = << >> /\ s_rounds = << >>
  /\ s_waits = << >> /\ s_rd = << >> /\ s_wr = << >> /\ s_written = {}
  /\ s_buffer = << >> /\ s_ping = << >> /\ s_pong = << >> /\ s_call = 1
  /\ s_ref = << >>

Agents == 0 .. groupsize - 1

L == Cardinality(DOMAIN input)

\* ------------------------------------------------- the caller's arguments
\* a caller whose exclusive_scan runs the inclusive loop as well
KindAlwaysInclusive == "inclusive"

\* which scan the current call is
Kind == IF scenario = "exclusive" \/ (scenario = "pair" /\ callNo = 2)
        THEN "exclusive" ELSE "inclusive"

\* the output range the current call writes
Dst == IF scenario = "pair" /\ callNo = 2 THEN 2 ELSE 1

\* the arguments first and last of the current call
ArgFirst == IF callNo = 1 \/ scenario = "pair" THEN 0 ELSE split

ArgLast == IF callNo = 1 THEN split ELSE L

\* ------------------------------------------------- scratch buffer layout
\* s_sums = buffer
SumsBase == 0

\* a second buffer that is the first one
PongBaseAtSums == SumsBase

\* s_sums + groupsize, the second buffer of the small scan
PongBase == groupsize

\* a staging area that starts where the sums start
SharedBaseAtSums == SumsBase

\* shared.inputs / shared.results = buffer + 2*groupsize
SharedBase == 2 * groupsize

\* a buffer with room for one array of sums only
BufferSizeOneSumsArray == groupsize + groupsize * grainsize

\* num_stage_bytes + num_sums_bytes, in slots
BufferSize == 2 * groupsize + groupsize * grainsize

elements_per_group == groupsize * grainsize

partition_size(t) == Min(elements_per_group, ArgLast - first[t])

local_offset(t) == grainsize * t

local_size(t) == Max(0, Min(grainsize, partition_size(t) - grainsize * t))

\* ------------------------------------------------- agent steps
\* the segment ends in g.wait()
Arrive(t, next) ==
  /\ pc' = [pc EXCEPT ![t] = next]
  /\ arrived' = [arrived EXCEPT ![t] = TRUE]
  /\ waits' = [waits EXCEPT ![t] = @ + 1]

Goto(t, next) ==
  /\ pc' = [pc EXCEPT ![t] = next]
  /\ UNCHANGED << arrived, waits >>

Runs(t, seg) == pc[t] = seg /\ ~arrived[t]

\* a location of the scratch buffer and a location of the output range
Slot(k) == << "buffer", k >>

Res(k) == << "result", k >>

\* the segment reads the locations R and writes the locations W
Access(t, R, W) ==
  /\ rd' = [rd EXCEPT ![t] = @ \cup R]
  /\ wr' = [wr EXCEPT ![t] = @ \cup W]

\* the staging slots agent t reaches in a cooperative copy of the tile
StridedSlots(t) ==
  { SharedBase + j : j \in { i \in 0 .. partition_size(t) - 1 : i % groupsize = t } }

\* the staging slots of agent t's own elements of the tile
OwnSlots(t) ==
  { SharedBase + local_offset(t) + i :
      i \in { j \in 0 .. grainsize - 1 : local_offset(t) + j < partition_size(t) } }

\* bulk::malloc(g, num_stage_bytes + num_sums_bytes)
malloc(t) == allocated' = [allocated EXCEPT ![t] = TRUE]

\* a return that keeps the buffer
freeForgotten(t) == UNCHANGED allocated

\* bulk::free(g, buffer)
free(t) == allocated' = [allocated EXCEPT ![t] = FALSE]

\* inclusive_scan / exclusive_scan with init: entry, up to the call of
\* *_scan_with_buffer
ScanEntry(t) ==
  /\ Runs(t, "call")
  /\ scenario # "noinit"
  /\ first' = [first EXCEPT ![t] = ArgFirst]
  /\ carry_in' = [carry_in EXCEPT ![t] = init[t]]
  /\ apps' = {}
  /\ malloc(t)
  /\ Goto(t, "stage")
  /\ UNCHANGED << rd, wr >>
  /\ UNCHANGED << bmVars, mergeVars, smallVars, groupsize, grainsize, input, scenario, split, garbage, callNo,
                  init, buffer, out, x, local_inputs, sx, sresult, ping, pong,
                  offset >>

\* inclusive_scan without init: the first input becomes the init
InclusiveScanNoInit(t) ==
  /\ Runs(t, "call")
  /\ scenario = "noinit"
  /\ apps' = {}
  /\ IF ArgFirst < ArgLast
     THEN /\ out' = IF t = 0
                    THEN [out EXCEPT ![Dst][ArgFirst] = input[ArgFirst]]
                    ELSE out
          /\ first' = [first EXCEPT ![t] = ArgFirst + 1]
          /\ carry_in' = [carry_in EXCEPT ![t] = input[ArgFirst]]
          /\ malloc(t)
          /\ Access(t, {}, IF t = 0 THEN { Res(ArgFirst) } ELSE {})
          /\ Goto(t, "stage")
     ELSE /\ Goto(t, "ret")
          /\ UNCHANGED << out, first, carry_in, allocated, rd, wr >>
  /\ UNCHANGED << bmVars, mergeVars, smallVars, groupsize, grainsize, input, scenario, split, garbage, callNo,
                  init, buffer, x, local_inputs, sx, sresult, ping, pong, offset >>

\* head of the tile loop and bulk::copy_n(g, first, partition_size, shared.inputs):
\* agent t copies the elements t, t + groupsize, ... and waits
Stage(t) ==
  /\ Runs(t, "stage")
  /\ apps' = {}
  /\ IF first[t] < ArgLast
     THEN /\ buffer' = [k \in DOMAIN buffer |->
                          IF /\ k >= SharedBase
                             /\ k - SharedBase < partition_size(t)
                             /\ (k - SharedBase) % groupsize = t
                          THEN input[first[t] + (k - SharedBase)]
                          ELSE buffer[k]]
          /\ Access(t, {}, { Slot(k) : k \in StridedSlots(t) })
          /\ Arrive(t, "fold")
          /\ UNCHANGED allocated
     ELSE /\ free(t)
          /\ Goto(t, "ret")
          /\ UNCHANGED << buffer, rd, wr >>
  /\ UNCHANGED << bmVars, mergeVars, smallVars, groupsize, grainsize, input, scenario, split, garbage, callNo,
                  init, out, first, carry_in, x, local_inputs, sx, sresult, ping,
                  pong, offset >>

\* the fused copy and accumulate loop: [x, li, apps] after iterations i..grainsize-1
RECURSIVE FoldLoop(_, _, _, _, _)
FoldLoop(i, t, xv, li, ap) ==
  IF i >= grainsize THEN [x |-> xv, li |-> li, apps |-> ap]
  ELSE LET index == local_offset(t) + i IN
       IF index < partition_size(t)
       THEN LET v == buffer[SharedBase + index] IN
            FoldLoop(i + 1, t,
                     IF i # 0 THEN Op(xv, v) ELSE v,
                     [li EXCEPT ![i] = v],
                     IF i # 0 THEN ap \cup { << xv, v >> } ELSE ap)
       ELSE FoldLoop(i + 1, t, xv, li, ap)

\* a fold whose agent skips the barrier when it owns no element of the tile
FoldNoWaitWithoutElement(t) ==
  /\ Runs(t, "fold")
  /\ Access(t, { Slot(k) : k \in OwnSlots(t) }, IF local_size(t) # 0 THEN { Slot(SumsBase + t) } ELSE {})
  /\ LET r == FoldLoop(0, t, x[t], local_inputs[t], {}) IN
     /\ x' = [x EXCEPT ![t] = r.x]
     /\ local_inputs' = [local_inputs EXCEPT ![t] = r.li]
     /\ apps' = r.apps
     /\ buffer' = IF local_size(t) # 0
                  THEN [buffer EXCEPT ![SumsBase + t] = r.x]
                  ELSE buffer
  /\ IF local_size(t) # 0 THEN Arrive(t, "scan_init") ELSE Goto(t, "scan_init")
  /\ UNCHANGED << bmVars, mergeVars, smallVars, allocated, groupsize, grainsize, input, scenario, split, garbage, callNo,
                  init, out, first, carry_in, sx, sresult, ping, pong, offset >>

\* a fold that stores x into the sum slot whether or not the agent owns an
\* element
FoldStoresSumAlways(t) ==
  /\ Runs(t, "fold")
  /\ Access(t, { Slot(k) : k \in OwnSlots(t) }, { Slot(SumsBase + t) })
  /\ LET r == FoldLoop(0, t, x[t], local_inputs[t], {}) IN
     /\ x' = [x EXCEPT ![t] = r.x]
     /\ local_inputs' = [local_inputs EXCEPT ![t] = r.li]
     /\ apps' = r.apps
     /\ buffer' = [buffer EXCEPT ![SumsBase + t] = r.x]
  /\ Arrive(t, "scan_init")
  /\ UNCHANGED << bmVars, mergeVars, smallVars, allocated, groupsize, grainsize, input, scenario, split, garbage, callNo,
                  init, out, first, carry_in, sx, sresult, ping, pong, offset >>

\* transpose out of shared memory, local fold, store of the per-agent sum
Fold(t) ==
  /\ Runs(t, "fold")
  /\ Access(t, { Slot(k) : k \in OwnSlots(t) }, IF local_size(t) # 0 THEN { Slot(SumsBase + t) } ELSE {})
  /\ LET r == FoldLoop(0, t, x[t], local_inputs[t], {}) IN
     /\ x' = [x EXCEPT ![t] = r.x]
     /\ local_inputs' = [local_inputs EXCEPT ![t] = r.li]
     /\ apps' = r.apps
     /\ buffer' = IF local_size(t) # 0
                  THEN [buffer EXCEPT ![SumsBase + t] = r.x]
                  ELSE buffer
  /\ Arrive(t, "scan_init")
  /\ UNCHANGED << bmVars, mergeVars, smallVars, allocated, groupsize, grainsize, input, scenario, split, garbage, callNo,
                  init, out, first, carry_in, sx, sresult, ping, pong, offset >>

\* small_inplace_exclusive_scan_with_buffer: fold of init into first[0], load of x
ScanInit(t) ==
  /\ Runs(t, "scan_init")
  /\ Access(t, { Slot(SumsBase + t) }, IF t = 0 THEN { Slot(SumsBase) } ELSE {})
  /\ LET b1 == IF t = 0
               THEN [buffer EXCEPT ![SumsBase] = Op(carry_in[t], buffer[SumsBase])]
               ELSE buffer
     IN /\ buffer' = b1
        /\ sx' = [sx EXCEPT ![t] = b1[SumsBase + t]]
  /\ apps' = IF t = 0 THEN { << carry_in[t], buffer[SumsBase] >> } ELSE {}
  /\ ping' = [ping EXCEPT ![t] = SumsBase]
  /\ pong' = [pong EXCEPT ![t] = PongBase]
  /\ offset' = [offset EXCEPT ![t] = 1]
  /\ Arrive(t, IF 1 < groupsize THEN "scan_round" ELSE "scan_total")
  /\ UNCHANGED << bmVars, mergeVars, smallVars, allocated, groupsize, grainsize, input, scenario, split, garbage, callNo,
                  init, out, first, carry_in, x, local_inputs, sresult >>

\* a round that forgets the second buffer: it writes the buffer it reads
ScanRoundNoSwap(t) ==
  /\ Runs(t, "scan_round")
  /\ Access(t, IF t >= offset[t] THEN { Slot(ping[t] + t - offset[t]) } ELSE {}, { Slot(ping[t] + t) })
  /\ LET nx == IF t >= offset[t]
               THEN Op(buffer[ping[t] + t - offset[t]], sx[t])
               ELSE sx[t]
     IN /\ sx' = [sx EXCEPT ![t] = nx]
        /\ apps' = IF t >= offset[t]
                   THEN { << buffer[ping[t] + t - offset[t]], sx[t] >> }
                   ELSE {}
        /\ buffer' = [buffer EXCEPT ![ping[t] + t] = nx]
  /\ offset' = [offset EXCEPT ![t] = offset[t] + offset[t]]
  /\ Arrive(t, IF offset[t] + offset[t] < groupsize THEN "scan_round" ELSE "scan_total")
  /\ UNCHANGED << bmVars, mergeVars, smallVars, allocated, groupsize, grainsize, input, scenario, split, garbage,
                  callNo, init, out, first, carry_in, x, local_inputs, sresult,
                  ping, pong >>

\* one round of the double-buffered scan
ScanRound(t) ==
  /\ Runs(t, "scan_round")
  /\ Access(t, IF t >= offset[t] THEN { Slot(ping[t] + t - offset[t]) } ELSE {}, { Slot(pong[t] + t) })
  /\ LET nx == IF t >= offset[t]
               THEN Op(buffer[ping[t] + t - offset[t]], sx[t])
               ELSE sx[t]
     IN /\ sx' = [sx EXCEPT ![t] = nx]
        /\ apps' = IF t >= offset[t]
                   THEN { << buffer[ping[t] + t - offset[t]], sx[t] >> }
                   ELSE {}
        /\ ping' = [ping EXCEPT ![t] = pong[t]]
        /\ pong' = [pong EXCEPT ![t] = ping[t]]
        /\ buffer' = [buffer EXCEPT ![pong[t] + t] = nx]
  /\ offset' = [offset EXCEPT ![t] = offset[t] + offset[t]]
  /\ Arrive(t, IF offset[t] + offset[t] < groupsize THEN "scan_round" ELSE "scan_total")
  /\ UNCHANGED << bmVars, mergeVars, smallVars, allocated, groupsize, grainsize, input, scenario, split, garbage, callNo,
                  init, out, first, carry_in, x, local_inputs, sresult >>

\* a total step that forgets the shift: x = ping[tid] for every agent but 0
ScanTotalNoShift(t) ==
  /\ Runs(t, "scan_total")
  /\ Access(t, { Slot(ping[t] + groupsize - 1) } \cup (IF t = 0 THEN {} ELSE { Slot(ping[t] + t) }), {})
  /\ sresult' = [sresult EXCEPT ![t] = buffer[ping[t] + groupsize - 1]]
  /\ sx' = [sx EXCEPT ![t] = IF t = 0 THEN carry_in[t] ELSE buffer[ping[t] + t]]
  /\ apps' = {}
  /\ Arrive(t, "scan_shift")
  /\ UNCHANGED << bmVars, mergeVars, smallVars, allocated, groupsize, grainsize, input, scenario, split, garbage,
                  callNo, init, buffer, out, first, carry_in, x, local_inputs, ping,
                  pong, offset >>

\* a total step in which every agent takes the prefix at its own slot as the
\* result: result = ping[tid]
ScanTotalOwnPrefix(t) ==
  /\ Runs(t, "scan_total")
  /\ Access(t, { Slot(ping[t] + t) } \cup (IF t = 0 THEN {} ELSE { Slot(ping[t] + t - 1) }), {})
  /\ sresult' = [sresult EXCEPT ![t] = buffer[ping[t] + t]]
  /\ sx' = [sx EXCEPT ![t] = IF t = 0 THEN carry_in[t] ELSE buffer[ping[t] + t - 1]]
  /\ apps' = {}
  /\ Arrive(t, "scan_shift")
  /\ UNCHANGED << bmVars, mergeVars, smallVars, allocated, groupsize, grainsize, input, scenario, split, garbage,
                  callNo, init, buffer, out, first, carry_in, x, local_inputs, ping,
                  pong, offset >>

\* result = ping[size - 1]; x = (tid == 0) ? init : ping[tid - 1]
ScanTotal(t) ==
  /\ Runs(t, "scan_total")
  /\ Access(t, { Slot(ping[t] + groupsize - 1) } \cup (IF t = 0 THEN {} ELSE { Slot(ping[t] + t - 1) }), {})
  /\ sresult' = [sresult EXCEPT ![t] = buffer[ping[t] + groupsize - 1]]
  /\ sx' = [sx EXCEPT ![t] = IF t = 0 THEN carry_in[t] ELSE buffer[ping[t] + t - 1]]
  /\ apps' = {}
  /\ Arrive(t, "scan_shift")
  /\ UNCHANGED << bmVars, mergeVars, smallVars, allocated, groupsize, grainsize, input, scenario, split, garbage, callNo,
                  init, buffer, out, first, carry_in, x, local_inputs, ping, pong,
                  offset >>

\* first[tid] = x
ScanShift(t) ==
  /\ Runs(t, "scan_shift")
  /\ Access(t, {}, { Slot(SumsBase + t) })
  /\ buffer' = [buffer EXCEPT ![SumsBase + t] = sx[t]]
  /\ apps' = {}
  /\ Arrive(t, "rewalk")
  /\ UNCHANGED << bmVars, mergeVars, smallVars, allocated, groupsize, grainsize, input, scenario, split, garbage, callNo,
                  init, out, first, carry_in, x, local_inputs, sx, sresult, ping,
                  pong, offset >>

\* the second per-agent loop of inclusive_scan_with_buffer: combine, then write
RECURSIVE InclusiveLoop(_, _, _, _, _)
InclusiveLoop(i, t, xv, buf, ap) ==
  IF i >= grainsize THEN [x |-> xv, buffer |-> buf, apps |-> ap]
  ELSE LET index == local_offset(t) + i IN
       IF index < partition_size(t)
       THEN LET nx == Op(xv, local_inputs[t][i]) IN
            InclusiveLoop(i + 1, t, nx,
                          [buf EXCEPT ![SharedBase + index] = nx],
                          ap \cup { << xv, local_inputs[t][i] >> })
       ELSE InclusiveLoop(i + 1, t, xv, buf, ap)

\* the second per-agent loop of exclusive_scan_with_buffer: write, then combine
RECURSIVE ExclusiveLoop(_, _, _, _, _)
ExclusiveLoop(i, t, xv, buf, ap) ==
  IF i >= grainsize THEN [x |-> xv, buffer |-> buf, apps |-> ap]
  ELSE LET index == local_offset(t) + i IN
       IF index < partition_size(t)
       THEN ExclusiveLoop(i + 1, t, Op(xv, local_inputs[t][i]),
                          [buf EXCEPT ![SharedBase + index] = xv],
                          ap \cup { << xv, local_inputs[t][i] >> })
       ELSE ExclusiveLoop(i + 1, t, xv, buf, ap)

\* return of the small scan into carry_in, reload of x, second per-agent loop
Rewalk(t) ==
  /\ Runs(t, "rewalk")
  /\ Access(t, IF local_size(t) # 0 THEN { Slot(SumsBase + t) } ELSE {}, { Slot(k) : k \in OwnSlots(t) })
  /\ carry_in' = [carry_in EXCEPT ![t] = sresult[t]]
  /\ LET x0 == IF local_size(t) # 0 THEN buffer[SumsBase + t] ELSE x[t]
         r == IF Kind = "inclusive"
              THEN InclusiveLoop(0, t, x0, buffer, {})
              ELSE ExclusiveLoop(0, t, x0, buffer, {})
     IN /\ x' = [x EXCEPT ![t] = r.x]
        /\ buffer' = r.buffer
        /\ apps' = r.apps
  /\ Arrive(t, "copy_out")
  /\ UNCHANGED << bmVars, mergeVars, smallVars, allocated, groupsize, grainsize, input, scenario, split, garbage, callNo,
                  init, out, first, local_inputs, sx, sresult, ping, pong, offset >>

\* bulk::copy_n(g, shared.results, partition_size, result)
CopyOut(t) ==
  /\ Runs(t, "copy_out")
  /\ Access(t, { Slot(k) : k \in StridedSlots(t) }, { Res(first[t] + (k - SharedBase)) : k \in StridedSlots(t) })
  /\ out' = [out EXCEPT ![Dst] =
               [k \in DOMAIN out[Dst] |->
                  IF /\ k >= first[t]
                     /\ k - first[t] < partition_size(t)
                     /\ (k - first[t]) % groupsize = t
                  THEN buffer[SharedBase + (k - first[t])]
                  ELSE out[Dst][k]]]
  /\ apps' = {}
  /\ Arrive(t, "next")
  /\ UNCHANGED << bmVars, mergeVars, smallVars, allocated, groupsize, grainsize, input, scenario, split, garbage, callNo,
                  init, buffer, first, carry_in, x, local_inputs, sx, sresult,
                  ping, pong, offset >>

\* first += elements_per_group, result += elements_per_group
NextTile(t) ==
  /\ Runs(t, "next")
  /\ first' = [first EXCEPT ![t] = first[t] + elements_per_group]
  /\ apps' = {}
  /\ Goto(t, "stage")
  /\ UNCHANGED << bmVars, mergeVars, smallVars, allocated, rd, wr, groupsize, grainsize, input, scenario, split, garbage, callNo,
                  init, buffer, out, carry_in, x, local_inputs, sx, sresult, ping,
                  pong, offset >>

\* g.wait(): the barrier opens when every agent of the group has arrived
Barrier ==
  /\ \A t \in Agents : arrived[t]
  /\ arrived' = [t \in Agents |-> FALSE]
  /\ apps' = {}
  /\ rd' = [t \in Agents |-> {}]
  /\ wr' = [t \in Agents |-> {}]
  /\ UNCHANGED << bmVars, mergeVars, smallVars, allocated, waits, groupsize, grainsize, input, scenario, split, garbage, callNo,
                  init, buffer, out, pc, first, carry_in, x, local_inputs, sx,
                  sresult, ping, pong, offset >>

CallDone == \A t \in Agents : pc[t] = "ret"

\* the caller: after the first call returns, the second call of the scenario.
\* "inclusive"/"exclusive": the scan of [split, L) seeded with the carry each
\* agent holds; "pair": exclusive_scan of the same input with the same init.
\* bulk::free and bulk::malloc: the new buffer holds arbitrary values.
SecondCall ==
  /\ CallDone
  /\ callNo = 1
  /\ scenario # "noinit"
  /\ callNo' = 2
  /\ init' = IF scenario = "pair" THEN init ELSE carry_in
  /\ \E g \in GarbageVals : buffer' = [k \in DOMAIN buffer |-> g]
  /\ pc' = [t \in Agents |-> "call"]
  /\ apps' = {}
  /\ waits' = [t \in Agents |-> 0]
  /\ rd' = [t \in Agents |-> {}]
  /\ wr' = [t \in Agents |-> {}]
  /\ UNCHANGED << bmVars, mergeVars, smallVars, allocated, groupsize, grainsize, input, scenario, split, garbage, out,
                  arrived, first, carry_in, x, local_inputs, sx, sresult, ping,
                  pong, offset >>

InitScan ==
  /\ groupsize \in 1 .. MaxN
  /\ grainsize \in 1 .. MaxG
  /\ \E len \in 0 .. MaxLen : input = [i \in 0 .. len - 1 |-> << i + 1 >>]
  /\ scenario \in Scenarios
  /\ split \in 0 .. L
  /\ scenario \in { "noinit", "pair" } => split = L
  /\ garbage \in GarbageVals
  /\ callNo = 1
  /\ init = [t \in Agents |-> << 0 >>]
  /\ buffer = [k \in 0 .. BufferSize - 1 |-> garbage]
  /\ out = [d \in 1 .. 2 |-> [i \in 0 .. L - 1 |-> garbage]]
  /\ pc = [t \in Agents |-> "call"]
  /\ arrived = [t \in Agents |-> FALSE]
  /\ first = [t \in Agents |-> 0]
  /\ carry_in = [t \in Agents |-> garbage]
  /\ x = [t \in Agents |-> garbage]
  /\ local_inputs = [t \in Agents |-> [i \in 0 .. grainsize - 1 |-> garbage]]
  /\ sx = [t \in Agents |-> garbage]
  /\ sresult = [t \in Agents |-> garbage]
  /\ ping = [t \in Agents |-> SumsBase]
  /\ pong = [t \in Agents |-> PongBase]
  /\ offset = [t \in Agents |-> 1]
  /\ apps = {}
  /\ waits = [t \in Agents |-> 0]
  /\ allocated = [t \in Agents |-> FALSE]
  /\ rd = [t \in Agents |-> {}]
  /\ wr = [t \in Agents |-> {}]
  /\ IdleBM /\ IdleMerge /\ IdleSmall

NextScan ==
  \/ \E t \in Agents : ScanEntry(t)
  \/ \E t \in Agents : InclusiveScanNoInit(t)
  \/ \E t \in Agents : Stage(t)
  \/ \E t \in Agents : Fold(t)
  \/ \E t \in Agents : ScanInit(t)
  \/ \E t \in Agents : ScanRound(t)
  \/ \E t \in Agents : ScanTotal(t)
  \/ \E t \in Agents : ScanShift(t)
  \/ \E t \in Agents : Rewalk(t)
  \/ \E t \in Agents : CopyOut(t)
  \/ \E t \in Agents : NextTile(t)
  \/ Barrier
  \/ SecondCall


\* ------------------------------------------------- reference results
\* the sequential left fold v op input[lo] op ... op input[hi-1]
RECURSIVE LeftFold(_, _, _)
LeftFold(v, lo, hi) == IF lo >= hi THEN v ELSE LeftFold(Op(v, input[lo]), lo + 1, hi)

\* every letter of l denotes a position before every letter of r (letters of
\* uninitialised memory, which are negative, denote no position)
Ordered(l, r) ==
  \A i \in 1 .. Len(l), j \in 1 .. Len(r) : (l[i] >= 0 /\ r[j] >= 0) => l[i] < r[j]

\* ------------------------------------------------- claims about the scans

\* C1: when inclusive_scan with init has returned, result[i] is
\* init op input[0] op ... op input[i] for every i of the scanned range, and
\* when the overload without init has returned, result[i] is
\* input[0] op ... op input[i].
C1_InclusiveScanCorrect ==
  /\ (CallDone /\ callNo = 1 /\ scenario \in { "inclusive", "pair" })
       => \A i \in 0 .. split - 1 : out[1][i] = LeftFold(<< 0 >>, 0, i + 1)
  /\ (CallDone /\ scenario = "noinit")
       => \A i \in 0 .. L - 1 : out[1][i] = LeftFold(input[0], 1, i + 1)

\* C1 witness: inclusive_scan has returned from a multi-tile input whose last
\* tile is partial
C1_Witness ==
  /\ CallDone /\ callNo = 1 /\ scenario = "inclusive"
  /\ groupsize = 3 /\ grainsize = 2 /\ split = 7
  /\ out[1][6] = << 0, 1, 2, 3, 4, 5, 6, 7 >>

\* C2: when exclusive_scan has returned, result[0] is init and result[i] is
\* init op input[0] op ... op input[i-1].
C2_ExclusiveScanCorrect ==
  /\ (CallDone /\ callNo = 1 /\ scenario = "exclusive")
       => \A i \in 0 .. split - 1 : out[1][i] = LeftFold(<< 0 >>, 0, i)
  /\ (CallDone /\ callNo = 2 /\ scenario = "pair")
       => \A i \in 0 .. L - 1 : out[2][i] = LeftFold(<< 0 >>, 0, i)

\* C2 witness: exclusive_scan has returned from a multi-tile input whose last
\* tile is partial
C2_Witness ==
  /\ CallDone /\ callNo = 1 /\ scenario = "exclusive"
  /\ groupsize = 2 /\ grainsize = 2 /\ split = 7
  /\ out[1][0] = << 0 >>
  /\ out[1][6] = << 0, 1, 2, 3, 4, 5, 6 >>

\* C6: every application op(l, r) the scans make has l covering positions
\* strictly before those of r, and the outputs of inclusive_scan and
\* exclusive_scan equal the sequential left fold of the non-commutative op.
C6_LeftToRightOrder ==
  /\ \A a \in apps : Ordered(a[1], a[2])
  /\ (CallDone /\ callNo = 1 /\ scenario = "inclusive")
       => \A i \in 0 .. split - 1 : out[1][i] = LeftFold(<< 0 >>, 0, i + 1)
  /\ (CallDone /\ callNo = 1 /\ scenario = "exclusive")
       => \A i \in 0 .. split - 1 : out[1][i] = LeftFold(<< 0 >>, 0, i)

\* C7: scanning A = [0, split) and then B = [split, L) with B's init set to
\* the carry held after the scan of A gives the outputs of one scan of A.B;
\* the carry held after the last tile of A is init op all elements of A.
C7_Chaining ==
  /\ (CallDone /\ callNo = 1 /\ scenario \in { "inclusive", "exclusive" })
       => \A t \in Agents : carry_in[t] = LeftFold(<< 0 >>, 0, split)
  /\ (CallDone /\ callNo = 2 /\ scenario = "inclusive")
       => \A i \in 0 .. L - 1 : out[1][i] = LeftFold(<< 0 >>, 0, i + 1)
  /\ (CallDone /\ callNo = 2 /\ scenario = "exclusive")
       => \A i \in 0 .. L - 1 : out[1][i] = LeftFold(<< 0 >>, 0, i)

\* C8: for the same group, input and init, op(exclusive_result[i], input[i])
\* equals inclusive_result[i] for every i.
C8_ExclusiveThenInput ==
  (CallDone /\ callNo = 2 /\ scenario = "pair")
    => \A i \in 0 .. L - 1 : Op(out[2][i], input[i]) = out[1][i]

\* C8 witness: both scans of a multi-tile input have returned
C8_Witness ==
  /\ CallDone /\ callNo = 2 /\ scenario = "pair"
  /\ groupsize = 3 /\ grainsize = 1 /\ L = 5
  /\ out[1][4] = << 0, 1, 2, 3, 4, 5 >>
  /\ out[2][4] = << 0, 1, 2, 3, 4 >>

\* the call scans an empty range
EmptyCall == scenario # "noinit" /\ ArgFirst = ArgLast

\* C11: a call of inclusive_scan or exclusive_scan with init on an empty range
\* (first == last) runs no tile: no agent executes a barrier, no agent writes a
\* scratch slot or an output element, and an agent that has returned holds the
\* carry it was given (init) and has released the buffer it allocated.
C11_EmptyInput ==
  EmptyCall =>
    \A t \in Agents :
      /\ pc[t] \in { "call", "stage", "ret" }
      /\ waits[t] = 0
      /\ ~arrived[t]
      /\ wr[t] = {}
      /\ pc[t] = "stage" => allocated[t]
      /\ pc[t] = "ret" => (carry_in[t] = init[t] /\ ~allocated[t])

\* the second call of a chain, on an empty range after a scan of five elements
\* in two tiles, has returned
C11_Witness ==
  /\ EmptyCall /\ CallDone /\ callNo = 2 /\ scenario = "exclusive"
  /\ groupsize = 2 /\ grainsize = 2 /\ L = 5 /\ split = 5
  /\ \A t \in Agents : init[t] # << 0 >>

\* the scratch locations
ScratchSlots == { Slot(k) : k \in DOMAIN buffer }

\* agent t writes a location that another agent reads or writes in the phase
Conflict(t, u) == t # u /\ wr[t] \cap (rd[u] \cup wr[u]) # {}

\* C14: in the tiled scans, with copy_n a strided cooperative copy that ends in
\* a barrier, no agent writes a scratch slot (sums, second buffer, staging) that
\* a different agent reads or writes between the same two barriers, in every
\* tile and across the tiles.
C14_TiledScanRaceFree ==
  \A t, u \in Agents :
    t # u => wr[t] \cap (rd[u] \cup wr[u]) \cap ScratchSlots = {}

\* in the second tile, agent 0 has rewritten staging slots of the first tile
\* while agent 2 has read its own staging slots and written its sum
C14_Witness ==
  /\ groupsize = 3 /\ grainsize = 2 /\ first[0] > ArgFirst /\ first[2] > ArgFirst
  /\ pc[0] = "copy_out" /\ arrived[0] /\ Slot(SharedBase) \in wr[0]
  /\ pc[2] = "copy_out" /\ arrived[2] /\ Slot(SumsBase + 2) \in rd[2]

\* the stride of round k + 1: 2^k
RECURSIVE Pow2(_)
Pow2(k) == IF k <= 0 THEN 1 ELSE 2 * Pow2(k - 1)

\* ceil(log2(n)): the least r with 2^r >= n
CeilLog2(n) == CHOOSE r \in 0 .. n : Pow2(r) >= n /\ (r = 0 \/ Pow2(r - 1) < n)

\* the barrier calls of one tile: stage-in, fold, the small scan (fold of init,
\* one per round, total, shift), second loop, copy-out
WaitsPerTile == 7 + CeilLog2(groupsize)

\* agent t is inside small_inplace_exclusive_scan_with_buffer
InSmallScan(t) ==
  \/ pc[t] \in { "scan_round", "scan_total", "scan_shift" }
  \/ pc[t] = "scan_init" /\ ~arrived[t]
  \/ pc[t] = "rewalk" /\ arrived[t]

\* agent t waits at the barrier that ends a round
AfterRound(t) ==
  arrived[t] /\ pc[t] \in { "scan_round", "scan_total" } /\ offset[t] > 1

\* C15: small_inplace_exclusive_scan_with_buffer is free of races for every
\* size >= 1: in each round an agent reads only the buffer written before the
\* round and writes only its own slot of the other buffer, with one barrier per
\* round; the fold of init into slot 0 by agent 0, the read of the total at
\* slot size-1 by all agents and the shifted write into first[] never meet an
\* access of another agent to the same slot between the same two barriers.
C15_SmallScanRaceFree ==
  \A t \in Agents :
    /\ InSmallScan(t) => \A u \in Agents : ~Conflict(t, u) /\ ~Conflict(u, t)
    /\ AfterRound(t) =>
         /\ { ping[t], pong[t] } = { SumsBase, PongBase }
         /\ ping[t] # pong[t]
         /\ wr[t] = { Slot(ping[t] + t) }
         /\ rd[t] \subseteq { Slot(pong[t] + j) : j \in Agents \ { t } }
         /\ offset[t] = Pow2((waits[t] % WaitsPerTile) - 3)
         /\ \A u \in Agents : AfterRound(u) => ping[u] = ping[t]

\* a group of three after its second round (an even number of rounds): agent 2
\* read slot 0 of the second buffer and wrote its slot of the first
C15_Witness ==
  /\ groupsize = 3 /\ AfterRound(2) /\ offset[2] = 4
  /\ rd[2] = { Slot(PongBase) } /\ wr[2] = { Slot(SumsBase + 2) }
  /\ AfterRound(0) /\ wr[0] = { Slot(SumsBase) }

\* =========================================================== bounded_merge
\* Elements are <<key, range, position>>: the comparator looks at the key only,
\* the other two components tell equivalent elements apart.
MaxKey == 2
MaxRange == 3
MaxBound == 3

\* comp: thrust::less on the key, a strict weak ordering
comp(u, v) == u[1] < v[1]

\* what an unconstructed value or unwritten slot holds
Uninit == << 0, 0, 0 >>

\* the sorted ranges of length n over the keys 1..MaxKey, tagged as range r
SortedRanges(r, n) ==
  { [i \in 0 .. n - 1 |-> << f[i], r, i >>] :
      f \in { g \in [0 .. n - 1 -> 1 .. MaxKey] :
                \A i \in 0 .. n - 1, j \in 0 .. n - 1 : i < j => g[i] <= g[j] } }

\* reading an element of an array; beyond the array lies unknown memory
ReadMem(mem, k) == IF k \in DOMAIN mem THEN mem[k] ELSE Uninit

\* bounded_merge up to the loop: n1, n2, idx1, idx2, the cached a and b, i;
\* reads collects the elements <<range, index>> fetched from the two ranges
BMInit(mem1, f1, l1, mem2, f2, l2, bnd) ==
  [ first1 |-> f1, n1 |-> l1 - f1, idx1 |-> 0,
    first2 |-> f2, n2 |-> l2 - f2, idx2 |-> 0,
    a |-> IF l1 - f1 # 0 THEN ReadMem(mem1, f1) ELSE Uninit,
    b |-> IF l2 - f2 # 0 THEN ReadMem(mem2, f2) ELSE Uninit,
    i |-> 0,
    result |-> [j \in 0 .. bnd - 1 |-> Uninit],
    reads |-> (IF l1 - f1 # 0 THEN { << 1, f1 >> } ELSE {})
                \cup (IF l2 - f2 # 0 THEN { << 2, f2 >> } ELSE {}),
    pc |-> "loop" ]

\* the loop body without the break taken when both ranges are exhausted
BMStepBreakMissing(s, mem1, mem2, bnd) ==
  LET exhausted1 == s.idx1 >= s.n1
      exhausted2 == s.idx2 >= s.n2
  IN
  IF ~(s.i < bnd) THEN [s EXCEPT !.pc = "done"]
  ELSE IF exhausted1
  THEN [s EXCEPT !.result[s.i] = s.b, !.idx2 = s.idx2 + 1, !.i = s.i + 1]
  ELSE IF exhausted2
  THEN [s EXCEPT !.result[s.i] = s.a, !.idx1 = s.idx1 + 1, !.i = s.i + 1]
  ELSE IF ~comp(s.b, s.a)
  THEN [s EXCEPT !.result[s.i] = s.a, !.idx1 = s.idx1 + 1, !.i = s.i + 1,
                 !.a = IF s.idx1 + 1 < s.n1
                       THEN ReadMem(mem1, s.first1 + s.idx1 + 1) ELSE s.a,
                 !.reads = IF s.idx1 + 1 < s.n1
                           THEN @ \cup { << 1, s.first1 + s.idx1 + 1 >> } ELSE @]
  ELSE [s EXCEPT !.result[s.i] = s.b, !.idx2 = s.idx2 + 1, !.i = s.i + 1,
                 !.b = IF s.idx2 + 1 < s.n2
                       THEN ReadMem(mem2, s.first2 + s.idx2 + 1) ELSE s.b,
                 !.reads = IF s.idx2 + 1 < s.n2
                           THEN @ \cup { << 2, s.first2 + s.idx2 + 1 >> } ELSE @]

\* the loop body with the comparison turned round: comp(a, b) instead of !comp(b, a)
BMStepTieToRange2(s, mem1, mem2, bnd) ==
  LET exhausted1 == s.idx1 >= s.n1
      exhausted2 == s.idx2 >= s.n2
  IN
  IF ~(s.i < bnd) \/ (exhausted1 /\ exhausted2)
  THEN [s EXCEPT !.pc = "done"]
  ELSE IF exhausted1
  THEN [s EXCEPT !.result[s.i] = s.b, !.idx2 = s.idx2 + 1, !.i = s.i + 1]
  ELSE IF exhausted2
  THEN [s EXCEPT !.result[s.i] = s.a, !.idx1 = s.idx1 + 1, !.i = s.i + 1]
  ELSE IF comp(s.a, s.b)
  THEN [s EXCEPT !.result[s.i] = s.a, !.idx1 = s.idx1 + 1, !.i = s.i + 1,
                 !.a = IF s.idx1 + 1 < s.n1
                       THEN ReadMem(mem1, s.first1 + s.idx1 + 1) ELSE s.a,
                 !.reads = IF s.idx1 + 1 < s.n1
                           THEN @ \cup { << 1, s.first1 + s.idx1 + 1 >> } ELSE @]
  ELSE [s EXCEPT !.result[s.i] = s.b, !.idx2 = s.idx2 + 1, !.i = s.i + 1,
                 !.b = IF s.idx2 + 1 < s.n2
                       THEN ReadMem(mem2, s.first2 + s.idx2 + 1) ELSE s.b,
                 !.reads = IF s.idx2 + 1 < s.n2
                           THEN @ \cup { << 2, s.first2 + s.idx2 + 1 >> } ELSE @]

\* one iteration of the loop of bounded_merge, or its exit
BMStep(s, mem1, mem2, bnd) ==
  LET exhausted1 == s.idx1 >= s.n1
      exhausted2 == s.idx2 >= s.n2
  IN
  IF ~(s.i < bnd) \/ (exhausted1 /\ exhausted2)
  THEN [s EXCEPT !.pc = "done"]
  ELSE IF exhausted1
  THEN [s EXCEPT !.result[s.i] = s.b, !.idx2 = s.idx2 + 1, !.i = s.i + 1]
  ELSE IF exhausted2
  THEN [s EXCEPT !.result[s.i] = s.a, !.idx1 = s.idx1 + 1, !.i = s.i + 1]
  ELSE IF ~comp(s.b, s.a)
  THEN [s EXCEPT !.result[s.i] = s.a, !.idx1 = s.idx1 + 1, !.i = s.i + 1,
                 !.a = IF s.idx1 + 1 < s.n1
                       THEN ReadMem(mem1, s.first1 + s.idx1 + 1) ELSE s.a,
                 !.reads = IF s.idx1 + 1 < s.n1
                           THEN @ \cup { << 1, s.first1 + s.idx1 + 1 >> } ELSE @]
  ELSE [s EXCEPT !.result[s.i] = s.b, !.idx2 = s.idx2 + 1, !.i = s.i + 1,
                 !.b = IF s.idx2 + 1 < s.n2
                       THEN ReadMem(mem2, s.first2 + s.idx2 + 1) ELSE s.b,
                 !.reads = IF s.idx2 + 1 < s.n2
                           THEN @ \cup { << 2, s.first2 + s.idx2 + 1 >> } ELSE @]

\* bounded_merge run to its return (s names the value of s0, so that an
\* iteration is computed once)
RECURSIVE BMRun(_, _, _, _)
BMRun(s0, mem1, mem2, bnd) ==
  CHOOSE r \in { IF s.pc = "done" THEN s
                 ELSE BMRun(BMStep(s, mem1, mem2, bnd), mem1, mem2, bnd) : s \in { s0 } } : TRUE

\* one loop iteration of bounded_merge<bound>(range1, range2)
BoundedMergeStep ==
  /\ bm.pc = "loop"
  /\ bm' = BMStep(bm, range1, range2, bound)
  /\ UNCHANGED << scanVars, mergeVars, smallVars, range1, range2, bound >>

InitBM ==
  /\ IdleScan /\ IdleMerge /\ IdleSmall
  /\ \E n \in 0 .. MaxRange : range1 \in SortedRanges(1, n)
  /\ \E n \in 0 .. MaxRange : range2 \in SortedRanges(2, n)
  /\ bound \in 1 .. MaxBound
  /\ bm = BMInit(range1, 0, Cardinality(DOMAIN range1),
                 range2, 0, Cardinality(DOMAIN range2), bound)

NextBM == BoundedMergeStep

\* ==================================================== cooperative tiled merge
\* One behaviour is one block of the kernel: a block has its own keys_shared
\* and writes only keys_global[NV*block ..), so the blocks of a launch do not
\* interact and the output of my_merge is the union of the blocks' slices.
MaxNT == 2
MaxVT == 2
MaxCount == 3

Threads == 0 .. NT - 1

aCountAll == Cardinality(DOMAIN aKeys)

bCountAll == Cardinality(DOMAIN bKeys)

NV == NT * VT

\* mgpu::MergePath<MgpuBoundsLower>: binary search on the diagonal diag
RECURSIVE MergePathSearch(_, _, _, _, _, _, _)
MergePathSearch(memA, aBase, memB, bBase, diag, begin, end) ==
  IF begin < end
  THEN CHOOSE r \in
         { LET aKey == ReadMem(memA, aBase + mid)
               bKey == ReadMem(memB, bBase + diag - 1 - mid)
           IN IF ~comp(bKey, aKey)
              THEN MergePathSearch(memA, aBase, memB, bBase, diag, mid + 1, end)
              ELSE MergePathSearch(memA, aBase, memB, bBase, diag, begin, mid)
           : mid \in { (begin + end) \div 2 } } : TRUE
  ELSE begin

\* the elements <<range, index>> the binary search fetches
RECURSIVE MergePathReads(_, _, _, _, _, _, _)
MergePathReads(memA, aBase, memB, bBase, diag, begin, end) ==
  IF begin < end
  THEN UNION
         { LET aKey == ReadMem(memA, aBase + mid)
               bKey == ReadMem(memB, bBase + diag - 1 - mid)
           IN { << 1, aBase + mid >>, << 2, bBase + diag - 1 - mid >> } \cup
              (IF ~comp(bKey, aKey)
               THEN MergePathReads(memA, aBase, memB, bBase, diag, mid + 1, end)
               ELSE MergePathReads(memA, aBase, memB, bBase, diag, begin, mid))
           : mid \in { (begin + end) \div 2 } }
  ELSE {}

MergePath(memA, aBase, aCount, memB, bBase, bCount, diag) ==
  MergePathSearch(memA, aBase, memB, bBase, diag,
                  Max(0, diag - bCount), Min(diag, aCount))

\* mgpu::MergePathPartitions: the merge path at each block boundary
mp_global(i) ==
  MergePath(aKeys, 0, aCountAll, bKeys, 0, bCountAll, Min(NV * i, aCountAll + bCountAll))

\* num_blocks = (n + NV - 1) / NV
num_blocks == (aCountAll + bCountAll + NV - 1) \div NV

\* mgpu::ComputeMergeRange with coop == 0: the int4 (x, y, z, w)
range ==
  LET gid == NV * block IN
  [ x |-> mp_global(block),
    y |-> mp_global(block + 1),
    z |-> gid - mp_global(block),
    w |-> Min(aCountAll + bCountAll, gid + NV) - mp_global(block + 1) ]

\* aCount and bCount of my_DeviceMerge
aCount == range.y - range.x

bCount == range.w - range.z

\* make_join_iterator(aKeys_global + range.x, aCount, bKeys_global + range.z)[k]
Joined(k) == IF k < aCount THEN aKeys[range.x + k] ELSE bKeys[range.z + (k - aCount)]

MArrive(t, next) ==
  /\ mpc' = [mpc EXCEPT ![t] = next]
  /\ marrived' = [marrived EXCEPT ![t] = TRUE]
  /\ m_waits' = [m_waits EXCEPT ![t] = @ + 1]

\* the segment reads the indices R and writes the indices W of s_keys
MAccess(t, R, W) ==
  /\ m_rd' = [m_rd EXCEPT ![t] = @ \cup R]
  /\ m_wr' = [m_wr EXCEPT ![t] = @ \cup W]

\* the indices of s_keys thread t reaches in a cooperative copy of the tile
MStrided(t) == { k \in 0 .. aCount + bCount - 1 : k % NT = t }

MRuns(t, seg) == mpc[t] = seg /\ ~marrived[t]

\* my_DeviceLoadToShared: thread t loads the elements NT*i + t, then __syncthreads
DeviceLoadToShared(t) ==
  /\ MRuns(t, "load")
  /\ keys_shared' = [k \in DOMAIN keys_shared |->
                       IF k % NT = t /\ k < aCount + bCount
                       THEN Joined(k) ELSE keys_shared[k]]
  /\ MAccess(t, {}, MStrided(t))
  /\ MArrive(t, "merge")
  /\ UNCHANGED << scanVars, bmVars, smallVars, aKeys, bKeys, NT, VT, block, keys_global,
                  local_result, local_offset1, local_offset2 >>

\* bounded_inplace_merge up to the first g.wait(): the locals after the merge path
\* search and the serial merge of thread t
InplaceMergeLocals(t) ==
  LET diag == VT * t IN
  CHOOSE l \in
    { [ diag |-> diag, local_offset1 |-> mp, local_offset2 |-> n1 + diag - mp,
        searched |-> MergePathReads(keys_shared, 0, keys_shared, n1, diag,
                                    Max(0, diag - n2), Min(diag, n1)),
        merged |-> BMRun(BMInit(keys_shared, mp, n1,
                                keys_shared, n1 + diag - mp, n1 + n2, VT),
                         keys_shared, keys_shared, VT) ]
      : n1 \in { aCount }, n2 \in { bCount },
        mp \in { MergePath(keys_shared, 0, aCount, keys_shared, aCount, bCount, diag) } }
    : TRUE

\* a merge step that goes on to the copy back without waiting
SerialMergeNoWait(t) ==
  /\ MRuns(t, "merge")
  /\ \E l \in { InplaceMergeLocals(t) } :
       /\ local_offset1' = [local_offset1 EXCEPT ![t] = l.local_offset1]
       /\ local_offset2' = [local_offset2 EXCEPT ![t] = l.local_offset2]
       /\ local_result' = [local_result EXCEPT ![t] = l.merged.result]
       /\ MAccess(t, { e[2] : e \in l.searched \cup l.merged.reads }, {})
  /\ mpc' = [mpc EXCEPT ![t] = "back"]
  /\ UNCHANGED << scanVars, bmVars, smallVars, aKeys, bKeys, NT, VT, block, keys_shared,
                  keys_global, marrived, m_waits >>

\* merge path search, serial merge into registers, then the first g.wait()
SerialMerge(t) ==
  /\ MRuns(t, "merge")
  /\ \E l \in { InplaceMergeLocals(t) } :
       /\ local_offset1' = [local_offset1 EXCEPT ![t] = l.local_offset1]
       /\ local_offset2' = [local_offset2 EXCEPT ![t] = l.local_offset2]
       /\ local_result' = [local_result EXCEPT ![t] = l.merged.result]
       /\ MAccess(t, { e[2] : e \in l.searched \cup l.merged.reads }, {})
  /\ MArrive(t, "back")
  /\ UNCHANGED << scanVars, bmVars, smallVars, aKeys, bKeys, NT, VT, block, keys_shared, keys_global >>

\* a local_size that is the grainsize for every thread
m_local_sizeUnclamped(t) == VT

\* local_size of bounded_inplace_merge
m_local_size(t) == Max(0, Min(VT, aCount + bCount - VT * t))

\* local result back to source, then the second g.wait()
BackCopy(t) ==
  /\ MRuns(t, "back")
  /\ keys_shared' = [k \in DOMAIN keys_shared |->
                       IF k >= VT * t /\ k - VT * t < m_local_size(t)
                       THEN local_result[t][k - VT * t] ELSE keys_shared[k]]
  /\ MAccess(t, {}, { VT * t + j : j \in 0 .. m_local_size(t) - 1 })
  /\ MArrive(t, "store")
  /\ UNCHANGED << scanVars, bmVars, smallVars, aKeys, bKeys, NT, VT, block, keys_global,
                  local_result, local_offset1, local_offset2 >>

\* bulk::copy_n(exec, keys_shared, aCount + bCount, keys_global + NT * VT * block)
StoreGlobal(t) ==
  /\ MRuns(t, "store")
  /\ keys_global' = [k \in DOMAIN keys_global |->
                       IF /\ k >= NV * block
                          /\ k - NV * block < aCount + bCount
                          /\ (k - NV * block) % NT = t
                       THEN keys_shared[k - NV * block] ELSE keys_global[k]]
  /\ MAccess(t, MStrided(t), {})
  /\ MArrive(t, "ret")
  /\ UNCHANGED << scanVars, bmVars, smallVars, aKeys, bKeys, NT, VT, block, keys_shared,
                  local_result, local_offset1, local_offset2 >>

\* the block's barrier opens when every thread has arrived
MBarrier ==
  /\ \A t \in Threads : marrived[t]
  /\ marrived' = [t \in Threads |-> FALSE]
  /\ m_rd' = [t \in Threads |-> {}]
  /\ m_wr' = [t \in Threads |-> {}]
  /\ UNCHANGED << scanVars, bmVars, smallVars, aKeys, bKeys, NT, VT, block, keys_shared, keys_global,
                  local_result, mpc, local_offset1, local_offset2, m_waits >>

BlockDone == \A t \in Threads : mpc[t] = "ret" /\ ~marrived[t]

InitMerge ==
  /\ IdleScan /\ IdleBM /\ IdleSmall
  /\ \E n \in 0 .. MaxCount : aKeys \in SortedRanges(1, n)
  /\ \E n \in 0 .. MaxCount : bKeys \in SortedRanges(2, n)
  /\ NT \in 1 .. MaxNT
  /\ VT \in 1 .. MaxVT
  /\ block \in 0 .. num_blocks - 1
  /\ keys_shared = [k \in 0 .. NV - 1 |-> Uninit]
  /\ keys_global = [k \in 0 .. aCountAll + bCountAll - 1 |-> Uninit]
  /\ local_result = [t \in Threads |-> [j \in 0 .. VT - 1 |-> Uninit]]
  /\ mpc = [t \in Threads |-> "load"]
  /\ marrived = [t \in Threads |-> FALSE]
  /\ local_offset1 = [t \in Threads |-> 0]
  /\ local_offset2 = [t \in Threads |-> 0]
  /\ m_waits = [t \in Threads |-> 0]
  /\ m_rd = [t \in Threads |-> {}]
  /\ m_wr = [t \in Threads |-> {}]

NextMerge ==
  \/ \E t \in Threads : DeviceLoadToShared(t)
  \/ \E t \in Threads : SerialMerge(t)
  \/ \E t \in Threads : BackCopy(t)
  \/ \E t \in Threads : StoreGlobal(t)
  \/ MBarrier

\* ------------------------------------------------- the specifications
\* each specification runs one part of the program and leaves the others idle
\* ============================================ the in-place small-group scans
\* small_inclusive_scan_n and small_exclusive_scan_n on a group of s_size
\* agents.  The array holds s_size elements, element i the word <<i+1>>, and
\* init is <<0>>.
MaxSmall == 4

SmallFns == { "small_inclusive_scan_n", "small_exclusive_scan_n" }

SAgents == 0 .. s_size - 1

\* the argument init of small_exclusive_scan_n
s_init == << 0 >>

SArrive(t, next) ==
  /\ s_pc' = [s_pc EXCEPT ![t] = next]
  /\ s_arrived' = [s_arrived EXCEPT ![t] = TRUE]
  /\ s_waits' = [s_waits EXCEPT ![t] = @ + 1]

SRuns(t, seg) == s_pc[t] = seg /\ ~s_arrived[t]

\* the segment reads the indices R and writes the indices W of the array
SAccess(t, R, W) ==
  /\ s_rd' = [s_rd EXCEPT ![t] = @ \cup R]
  /\ s_wr' = [s_wr EXCEPT ![t] = @ \cup W]
  /\ s_written' = s_written \cup W

\* where an agent continues when small_inclusive_scan_n returns
IncExit == IF s_fn = "small_exclusive_scan_n" THEN "e_total" ELSE "ret"

\* small_exclusive_scan_n: if(n > 0 && tid == 0) *first = binary_op(init, *first)
ExcFold(t) ==
  /\ SRuns(t, "e_fold")
  /\ IF s_n > 0 /\ t = 0
     THEN /\ s_data' = [s_data EXCEPT ![0] = Op(s_init, s_data[0])]
          /\ SAccess(t, { 0 }, { 0 })
     ELSE /\ UNCHANGED s_data
          /\ SAccess(t, {}, {})
  /\ SArrive(t, "e_load")
  /\ UNCHANGED << scanVars, bmVars, mergeVars, bufVars, s_fn, s_size, s_n, s_x, s_offset,
                  s_result, s_rounds >>

\* small_exclusive_scan_n: if(tid < n) x = first[tid]
ExcLoad(t) ==
  /\ SRuns(t, "e_load")
  /\ IF t < s_n
     THEN /\ s_x' = [s_x EXCEPT ![t] = s_data[t]]
          /\ SAccess(t, { t }, {})
     ELSE /\ UNCHANGED s_x
          /\ SAccess(t, {}, {})
  /\ SArrive(t, "i_load")
  /\ UNCHANGED << scanVars, bmVars, mergeVars, bufVars, s_fn, s_size, s_n, s_data, s_offset,
                  s_result, s_rounds >>

\* small_inclusive_scan_n: if(tid < n) x = first[tid]; after the barrier the
\* loop starts with offset = 1
IncLoad(t) ==
  /\ SRuns(t, "i_load")
  /\ IF t < s_n
     THEN /\ s_x' = [s_x EXCEPT ![t] = s_data[t]]
          /\ SAccess(t, { t }, {})
     ELSE /\ UNCHANGED s_x
          /\ SAccess(t, {}, {})
  /\ s_offset' = [s_offset EXCEPT ![t] = 1]
  /\ SArrive(t, IF 1 < s_n THEN "i_combine" ELSE IncExit)
  /\ UNCHANGED << scanVars, bmVars, mergeVars, bufVars, s_fn, s_size, s_n, s_data, s_result,
                  s_rounds >>

\* a combine step that goes on to the write without waiting
IncCombineNoWait(t) ==
  /\ SRuns(t, "i_combine")
  /\ IF t >= s_offset[t] /\ t < s_n
     THEN /\ s_x' = [s_x EXCEPT ![t] = Op(s_data[t - s_offset[t]], s_x[t])]
          /\ SAccess(t, { t - s_offset[t] }, {})
     ELSE /\ UNCHANGED s_x
          /\ SAccess(t, {}, {})
  /\ s_pc' = [s_pc EXCEPT ![t] = "i_write"]
  /\ UNCHANGED << scanVars, bmVars, mergeVars, bufVars, s_fn, s_size, s_n, s_data, s_offset,
                  s_result, s_rounds, s_arrived, s_waits >>

\* a combine step that leaves out the agent at tid == offset
IncCombineStrict(t) ==
  /\ SRuns(t, "i_combine")
  /\ IF t > s_offset[t] /\ t < s_n
     THEN /\ s_x' = [s_x EXCEPT ![t] = Op(s_data[t - s_offset[t]], s_x[t])]
          /\ SAccess(t, { t - s_offset[t] }, {})
     ELSE /\ UNCHANGED s_x
          /\ SAccess(t, {}, {})
  /\ SArrive(t, "i_write")
  /\ UNCHANGED << scanVars, bmVars, mergeVars, bufVars, s_fn, s_size, s_n, s_data, s_offset,
                  s_result, s_rounds >>

\* if(tid >= offset && tid < n) x = binary_op(first[tid - offset], x)
IncCombine(t) ==
  /\ SRuns(t, "i_combine")
  /\ IF t >= s_offset[t] /\ t < s_n
     THEN /\ s_x' = [s_x EXCEPT ![t] = Op(s_data[t - s_offset[t]], s_x[t])]
          /\ SAccess(t, { t - s_offset[t] }, {})
     ELSE /\ UNCHANGED s_x
          /\ SAccess(t, {}, {})
  /\ SArrive(t, "i_write")
  /\ UNCHANGED << scanVars, bmVars, mergeVars, bufVars, s_fn, s_size, s_n, s_data, s_offset,
                  s_result, s_rounds >>

\* a write step without the guard tid < n
IncWriteUnguarded(t) ==
  /\ SRuns(t, "i_write")
  /\ s_data' = [s_data EXCEPT ![t] = s_x[t]]
  /\ SAccess(t, {}, { t })
  /\ s_offset' = [s_offset EXCEPT ![t] = s_offset[t] + s_offset[t]]
  /\ s_rounds' = [s_rounds EXCEPT ![t] = @ + 1]
  /\ SArrive(t, IF s_offset[t] + s_offset[t] < s_n THEN "i_combine" ELSE IncExit)
  /\ UNCHANGED << scanVars, bmVars, mergeVars, bufVars, s_fn, s_size, s_n, s_x, s_result >>

\* if(tid < n) first[tid] = x; after the barrier offset += offset and the loop test
IncWrite(t) ==
  /\ SRuns(t, "i_write")
  /\ IF t < s_n
     THEN /\ s_data' = [s_data EXCEPT ![t] = s_x[t]]
          /\ SAccess(t, {}, { t })
     ELSE /\ UNCHANGED s_data
          /\ SAccess(t, {}, {})
  /\ s_offset' = [s_offset EXCEPT ![t] = s_offset[t] + s_offset[t]]
  /\ s_rounds' = [s_rounds EXCEPT ![t] = @ + 1]
  /\ SArrive(t, IF s_offset[t] + s_offset[t] < s_n THEN "i_combine" ELSE IncExit)
  /\ UNCHANGED << scanVars, bmVars, mergeVars, bufVars, s_fn, s_size, s_n, s_x, s_result >>

\* a total step that forgets the shift: x = first[tid]
ExcTotalNoShift(t) ==
  /\ SRuns(t, "e_total")
  /\ s_result' = [s_result EXCEPT ![t] = IF s_n > 0 THEN s_data[s_n - 1] ELSE s_init]
  /\ s_x' = [s_x EXCEPT ![t] = IF t = 0 \/ t >= s_n THEN s_init ELSE s_data[t]]
  /\ SAccess(t, (IF s_n > 0 THEN { s_n - 1 } ELSE {})
                  \cup (IF t = 0 \/ t >= s_n THEN {} ELSE { t }), {})
  /\ SArrive(t, "e_shift")
  /\ UNCHANGED << scanVars, bmVars, mergeVars, bufVars, s_fn, s_size, s_n, s_data, s_offset,
                  s_rounds >>

\* result = n > 0 ? first[n - 1] : init;
\* x = (tid == 0 || tid - 1 >= n) ? init : first[tid - 1]
ExcTotal(t) ==
  /\ SRuns(t, "e_total")
  /\ s_result' = [s_result EXCEPT ![t] = IF s_n > 0 THEN s_data[s_n - 1] ELSE s_init]
  /\ s_x' = [s_x EXCEPT ![t] = IF t = 0 \/ t - 1 >= s_n THEN s_init ELSE s_data[t - 1]]
  /\ SAccess(t, (IF s_n > 0 THEN { s_n - 1 } ELSE {})
                  \cup (IF t = 0 \/ t - 1 >= s_n THEN {} ELSE { t - 1 }), {})
  /\ SArrive(t, "e_shift")
  /\ UNCHANGED << scanVars, bmVars, mergeVars, bufVars, s_fn, s_size, s_n, s_data, s_offset,
                  s_rounds >>

\* if(tid < n) first[tid] = x; the last barrier, then return result
ExcShift(t) ==
  /\ SRuns(t, "e_shift")
  /\ IF t < s_n
     THEN /\ s_data' = [s_data EXCEPT ![t] = s_x[t]]
          /\ SAccess(t, {}, { t })
     ELSE /\ UNCHANGED s_data
          /\ SAccess(t, {}, {})
  /\ SArrive(t, "ret")
  /\ UNCHANGED << scanVars, bmVars, mergeVars, bufVars, s_fn, s_size, s_n, s_x, s_offset,
                  s_result, s_rounds >>

\* small_inplace_exclusive_scan_with_buffer<size>: first and buffer are two
\* arrays of size elements; location k < s_size is first[k], location
\* s_size + k is buffer[k]
FirstBase == 0

BufferBase == s_size

SMem(loc) == IF loc < BufferBase THEN s_data[loc] ELSE s_buffer[loc - BufferBase]

\* the segment stores v at the location loc
SStore(loc, v) ==
  IF loc < BufferBase
  THEN s_data' = [s_data EXCEPT ![loc] = v] /\ UNCHANGED s_buffer
  ELSE s_buffer' = [s_buffer EXCEPT ![loc - BufferBase] = v] /\ UNCHANGED s_data

\* the segment reads the locations R and writes the locations W
BAccess(t, R, W) ==
  /\ s_rd' = [s_rd EXCEPT ![t] = @ \cup R]
  /\ s_wr' = [s_wr EXCEPT ![t] = @ \cup W]
  /\ s_written' = s_written \cup { k \in W : k < BufferBase }

\* the agent has called small_exclusive_scan_n(g, first, size, init, op) and
\* every agent has returned
FirstCallDone ==
  /\ s_fn = "small_exclusive_scan_n" /\ s_n = s_size /\ s_call = 1
  /\ \A t \in SAgents : s_pc[t] = "ret" /\ ~s_arrived[t]

\* the caller keeps what small_exclusive_scan_n left, puts the entry contents
\* back into first and calls small_inplace_exclusive_scan_with_buffer<size>
\* with a buffer of size elements that holds arbitrary values
CallWithBuffer ==
  /\ FirstCallDone
  /\ s_ref' = [data |-> s_data, result |-> s_result]
  /\ s_call' = 2
  /\ s_fn' = "small_inplace_exclusive_scan_with_buffer"
  /\ s_data' = [i \in 0 .. s_size - 1 |-> << i + 1 >>]
  /\ s_buffer' \in [0 .. s_size - 1 -> GarbageVals]
  /\ s_pc' = [t \in SAgents |-> "b_fold"]
  /\ \E g \in GarbageVals :
       /\ s_x' = [t \in SAgents |-> g]
       /\ s_result' = [t \in SAgents |-> g]
  /\ s_offset' = [t \in SAgents |-> 1]
  /\ s_rounds' = [t \in SAgents |-> 0]
  /\ s_waits' = [t \in SAgents |-> 0]
  /\ s_rd' = [t \in SAgents |-> {}]
  /\ s_wr' = [t \in SAgents |-> {}]
  /\ s_written' = {}
  /\ UNCHANGED << scanVars, bmVars, mergeVars, s_size, s_n, s_arrived, s_ping, s_pong >>

\* ping = first; pong = buffer;
\* if(tid == 0) first[0] = binary_op(init, first[0]); x = first[tid]; g.wait()
BufFold(t) ==
  /\ SRuns(t, "b_fold")
  /\ s_ping' = [s_ping EXCEPT ![t] = FirstBase]
  /\ s_pong' = [s_pong EXCEPT ![t] = BufferBase]
  /\ IF t = 0
     THEN /\ s_data' = [s_data EXCEPT ![0] = Op(s_init, s_data[0])]
          /\ s_x' = [s_x EXCEPT ![t] = Op(s_init, s_data[0])]
          /\ BAccess(t, { FirstBase }, { FirstBase })
     ELSE /\ s_x' = [s_x EXCEPT ![t] = s_data[t]]
          /\ BAccess(t, { FirstBase + t }, {})
          /\ UNCHANGED s_data
  /\ s_offset' = [s_offset EXCEPT ![t] = 1]
  /\ SArrive(t, IF 1 < s_size THEN "b_round" ELSE "b_total")
  /\ UNCHANGED << scanVars, bmVars, mergeVars, s_fn, s_size, s_n, s_result, s_rounds,
                  s_buffer, s_call, s_ref >>

\* the loop body without thrust::swap(ping, pong)
BufRoundNoSwap(t) ==
  /\ SRuns(t, "b_round")
  /\ LET o == s_offset[t]
         v == IF t >= o THEN Op(SMem(s_ping[t] + t - o), s_x[t]) ELSE s_x[t]
     IN /\ s_x' = [s_x EXCEPT ![t] = v]
        /\ SStore(s_ping[t] + t, v)
        /\ BAccess(t, IF t >= o THEN { s_ping[t] + t - o } ELSE {}, { s_ping[t] + t })
        /\ s_offset' = [s_offset EXCEPT ![t] = o + o]
        /\ s_rounds' = [s_rounds EXCEPT ![t] = @ + 1]
        /\ SArrive(t, IF o + o < s_size THEN "b_round" ELSE "b_total")
  /\ UNCHANGED << scanVars, bmVars, mergeVars, s_fn, s_size, s_n, s_result, s_ping,
                  s_pong, s_call, s_ref >>

\* for(offset = 1; offset < size; offset += offset):
\* if(tid >= offset) x = binary_op(ping[tid - offset], x);
\* thrust::swap(ping, pong); ping[tid] = x; g.wait()
BufRound(t) ==
  /\ SRuns(t, "b_round")
  /\ LET o == s_offset[t]
         v == IF t >= o THEN Op(SMem(s_ping[t] + t - o), s_x[t]) ELSE s_x[t]
     IN /\ s_x' = [s_x EXCEPT ![t] = v]
        /\ s_ping' = [s_ping EXCEPT ![t] = s_pong[t]]
        /\ s_pong' = [s_pong EXCEPT ![t] = s_ping[t]]
        /\ SStore(s_pong[t] + t, v)
        /\ BAccess(t, IF t >= o THEN { s_ping[t] + t - o } ELSE {}, { s_pong[t] + t })
        /\ s_offset' = [s_offset EXCEPT ![t] = o + o]
        /\ s_rounds' = [s_rounds EXCEPT ![t] = @ + 1]
        /\ SArrive(t, IF o + o < s_size THEN "b_round" ELSE "b_total")
  /\ UNCHANGED << scanVars, bmVars, mergeVars, s_fn, s_size, s_n, s_result, s_call,
                  s_ref >>

\* result = ping[size - 1]; x = (tid == 0) ? init : ping[tid - 1]; g.wait()
BufTotal(t) ==
  /\ SRuns(t, "b_total")
  /\ s_result' = [s_result EXCEPT ![t] = SMem(s_ping[t] + s_size - 1)]
  /\ s_x' = [s_x EXCEPT ![t] = IF t = 0 THEN s_init ELSE SMem(s_ping[t] + t - 1)]
  /\ BAccess(t, { s_ping[t] + s_size - 1 }
                  \cup (IF t = 0 THEN {} ELSE { s_ping[t] + t - 1 }), {})
  /\ SArrive(t, "b_shift")
  /\ UNCHANGED << scanVars, bmVars, mergeVars, bufVars, s_fn, s_size, s_n, s_data,
                  s_offset, s_rounds >>

\* first[tid] = x; g.wait(); return result
BufShift(t) ==
  /\ SRuns(t, "b_shift")
  /\ s_data' = [s_data EXCEPT ![t] = s_x[t]]
  /\ BAccess(t, {}, { FirstBase + t })
  /\ SArrive(t, "ret")
  /\ UNCHANGED << scanVars, bmVars, mergeVars, bufVars, s_fn, s_size, s_n, s_x,
                  s_offset, s_result, s_rounds >>

\* g.wait(): the barrier opens when every agent of the group has arrived
SBarrier ==
  /\ \A t \in SAgents : s_arrived[t]
  /\ s_arrived' = [t \in SAgents |-> FALSE]
  /\ s_rd' = [t \in SAgents |-> {}]
  /\ s_wr' = [t \in SAgents |-> {}]
  /\ UNCHANGED << scanVars, bmVars, mergeVars, bufVars, s_fn, s_size, s_n, s_data, s_pc, s_x,
                  s_offset, s_result, s_rounds, s_waits, s_written >>

\* every agent has returned from the call
SmallDone == \A t \in SAgents : s_pc[t] = "ret" /\ ~s_arrived[t]

InitSmall ==
  /\ IdleScan /\ IdleBM /\ IdleMerge
  /\ s_fn \in SmallFns
  /\ s_size \in 1 .. MaxSmall
  /\ s_n \in 0 .. s_size
  /\ s_data = [i \in 0 .. s_size - 1 |-> << i + 1 >>]
  /\ s_pc = [t \in SAgents |->
               IF s_fn = "small_exclusive_scan_n" THEN "e_fold" ELSE "i_load"]
  /\ s_arrived = [t \in SAgents |-> FALSE]
  /\ \E g \in GarbageVals :
       /\ s_x = [t \in SAgents |-> g]
       /\ s_result = [t \in SAgents |-> g]
  /\ s_offset = [t \in SAgents |-> 1]
  /\ s_rounds = [t \in SAgents |-> 0]
  /\ s_waits = [t \in SAgents |-> 0]
  /\ s_rd = [t \in SAgents |-> {}]
  /\ s_wr = [t \in SAgents |-> {}]
  /\ s_written = {}
  /\ s_buffer = << >>
  /\ s_ping = [t \in SAgents |-> 0]
  /\ s_pong = [t \in SAgents |-> 0]
  /\ s_call = 1
  /\ s_ref = << >>

NextSmall ==
  \/ \E t \in SAgents : ExcFold(t)
  \/ \E t \in SAgents : ExcLoad(t)
  \/ \E t \in SAgents : IncLoad(t)
  \/ \E t \in SAgents : IncCombine(t)
  \/ \E t \in SAgents : IncWrite(t)
  \/ \E t \in SAgents : ExcTotal(t)
  \/ \E t \in SAgents : ExcShift(t)
  \/ CallWithBuffer
  \/ \E t \in SAgents : BufFold(t)
  \/ \E t \in SAgents : BufRound(t)
  \/ \E t \in SAgents : BufTotal(t)
  \/ \E t \in SAgents : BufShift(t)
  \/ SBarrier

SpecScan == InitScan /\ [][NextScan]_vars

SpecBM == InitBM /\ [][NextBM]_vars

SpecMerge == InitMerge /\ [][NextMerge]_vars

SpecSmall == InitSmall /\ [][NextSmall]_vars

\* a group runs one of the cooperative functions: a tiled scan, an in-place
\* small scan or the merge of a tile
InitGroups == InitScan \/ InitSmall \/ InitMerge

NextGroups == NextScan \/ NextSmall \/ NextMerge

\* every agent stays live: a step that can be taken is eventually taken
SpecGroups == InitGroups /\ [][NextGroups]_vars /\ WF_vars(NextGroups)

\* ------------------------------------------------- claims about the merges
\* the sequential stable merge of m1[i..] and m2[j..] (thrust::merge, the
\* reference of validate), as a sequence
RECURSIVE RefMerge(_, _, _, _)
RefMerge(m1, m2, i, j) ==
  LET n1 == Cardinality(DOMAIN m1)
      n2 == Cardinality(DOMAIN m2)
  IN IF i >= n1 /\ j >= n2 THEN << >>
     ELSE IF i >= n1 THEN << m2[j] >> \o RefMerge(m1, m2, i, j + 1)
     ELSE IF j >= n2 THEN << m1[i] >> \o RefMerge(m1, m2, i + 1, j)
     ELSE IF ~comp(m2[j], m1[i]) THEN << m1[i] >> \o RefMerge(m1, m2, i + 1, j)
     ELSE << m2[j] >> \o RefMerge(m1, m2, i, j + 1)

\* C3: the slice of the output a block of the top-level merge has written
\* equals the same slice of the reference stable merge of A and B.
C3_MergeIsStableMerge ==
  BlockDone =>
    \A k \in NV * block .. Min(aCountAll + bCountAll, NV * (block + 1)) - 1 :
      keys_global[k] = RefMerge(aKeys, bKeys, 0, 0)[k + 1]

\* C4: on return bounded_merge has written to result[0..k), k = min(bound, n1+n2),
\* the first k elements of the stable merge of the two ranges.
C4_BoundedMergePrefix ==
  bm.pc = "done" =>
    \A j \in 0 .. Min(bound, bm.n1 + bm.n2) - 1 :
      bm.result[j] = RefMerge(range1, range2, 0, 0)[j + 1]

\* C5: with exactly one range empty bounded_merge copies the other range:
\* result[j] = R2[j] for j < min(bound, n2) when n1 = 0, and result[j] = R1[j]
\* for j < min(bound, n1) when n2 = 0.
C5_EmptyRangeIsCopy ==
  bm.pc = "done" =>
    /\ (bm.n1 = 0 /\ bm.n2 > 0)
         => \A j \in 0 .. Min(bound, bm.n2) - 1 : bm.result[j] = range2[j]
    /\ (bm.n2 = 0 /\ bm.n1 > 0)
         => \A j \in 0 .. Min(bound, bm.n1) - 1 : bm.result[j] = range1[j]

\* C9: bounded_merge emits exactly min(bound, n1+n2) elements: idx1 + idx2 is
\* the number emitted, idx1 <= n1, idx2 <= n2, no result[j] with j at or beyond
\* the number emitted is written, and it returns result + min(bound, n1+n2).
C9_EmitsExactlyMin ==
  bm.pc \in { "loop", "done" } =>
    /\ bm.idx1 + bm.idx2 = bm.i
    /\ bm.idx1 <= bm.n1
    /\ bm.idx2 <= bm.n2
    /\ bm.i <= Min(bound, bm.n1 + bm.n2)
    /\ \A j \in 0 .. bound - 1 : j >= bm.i => bm.result[j] = Uninit
    /\ bm.pc = "done" => bm.i = Min(bound, bm.n1 + bm.n2)

\* C9 witness: bounded_merge has returned after the break, both non-empty
\* ranges exhausted before the bound
C9_Witness ==
  /\ bm.pc = "done"
  /\ bm.n1 = 1 /\ bm.n2 = 1 /\ bound = 3
  /\ bm.i = 2 /\ bm.idx1 = 1 /\ bm.idx2 = 1

\* C10: in every step in which neither range is exhausted the cached a and b
\* are first1[idx1] and first2[idx2], and the element emitted is first1[idx1]
\* if and only if !comp(first2[idx2], first1[idx1]); otherwise it is first2[idx2].
C10_TieRule ==
  [][ (bm.pc = "loop" /\ bm.i < bound /\ bm.idx1 < bm.n1 /\ bm.idx2 < bm.n2)
        => /\ bm.a = range1[bm.idx1]
           /\ bm.b = range2[bm.idx2]
           /\ IF ~comp(range2[bm.idx2], range1[bm.idx1])
              THEN /\ bm'.result[bm.i] = range1[bm.idx1]
                   /\ bm'.idx1 = bm.idx1 + 1 /\ bm'.idx2 = bm.idx2
              ELSE /\ bm'.result[bm.i] = range2[bm.idx2]
                   /\ bm'.idx2 = bm.idx2 + 1 /\ bm'.idx1 = bm.idx1
     ]_vars

\* C10 witness: a step with both ranges unexhausted and equivalent keys has
\* emitted the element of range 1
C10_Witness ==
  /\ bm.pc = "loop"
  /\ bm.n1 >= 2 /\ bm.n2 >= 1
  /\ bm.i = 2 /\ bm.idx1 = 2 /\ bm.idx2 = 0
  /\ range1[1][1] = range2[0][1]
  /\ bm.result[1] = range1[1]

\* ------------------------------------------------- claims about the small scans
\* the word <<lo, lo+1, ..., hi>>: with init = <<0>> and d[i] = <<i+1>>,
\* Word(0, i) is init op d[0] op ... op d[i-1] and Word(1, i+1) is d[0] op ... op d[i]
Word(lo, hi) == [k \in 1 .. (hi - lo + 1) |-> lo + k - 1]

\* C16: in small_inclusive_scan_n and small_exclusive_scan_n, for every
\* 0 <= n <= N, no agent writes data[j] between two barriers between which a
\* different agent reads (or writes) data[j].
C16_InPlaceScanRaceFree ==
  \A t, u \in SAgents : t # u => s_wr[t] \cap (s_rd[u] \cup s_wr[u]) = {}

\* in the second round of a scan of three elements agent 2 reads data[0], which
\* agent 0 wrote in the round before
C16_Witness ==
  /\ s_size = 4 /\ s_n = 3 /\ s_pc[2] = "i_write" /\ s_arrived[2]
  /\ s_offset[2] = 2 /\ s_rd[2] = { 0 } /\ 0 \in s_written

\* C18: when small_exclusive_scan_n(g, data, n, init, op) has returned, for
\* 0 <= n <= N: data[0] is init and data[i] is init op d[0] op ... op d[i-1]
\* for 0 < i < n, and every agent, also one with index >= n, holds the same
\* return value: init op d[0] op ... op d[n-1] if n > 0 and init if n == 0.
C18_SmallExclusiveScan ==
  (SmallDone /\ s_fn = "small_exclusive_scan_n") =>
    /\ \A i \in 0 .. s_n - 1 : s_data[i] = Word(0, i)
    /\ \A t \in SAgents : s_result[t] = Word(0, s_n)

\* three of four elements scanned; the agent without element holds the total
C18_Witness ==
  /\ SmallDone /\ s_fn = "small_exclusive_scan_n" /\ s_size = 4 /\ s_n = 3
  /\ s_data[0] = << 0 >> /\ s_data[2] = << 0, 1, 2 >>
  /\ s_result[3] = << 0, 1, 2, 3 >>

\* C19: small_inclusive_scan_n with 1 <= n <= N, n a power of two or not, runs
\* exactly ceil(log2 n) rounds, with the strides 1, 2, 4, ..., and then data[i]
\* is d[0] op ... op d[i] for 0 <= i < n.
C19_SmallInclusiveScan ==
  (s_fn = "small_inclusive_scan_n" /\ s_n >= 1) =>
    /\ \A t \in SAgents : s_offset[t] = Pow2(s_rounds[t])
    /\ SmallDone =>
         /\ \A t \in SAgents : s_rounds[t] = CeilLog2(s_n)
         /\ \A i \in 0 .. s_n - 1 : s_data[i] = Word(1, i + 1)

\* three elements: two rounds
C19_Witness ==
  /\ SmallDone /\ s_fn = "small_inclusive_scan_n" /\ s_size = 3 /\ s_n = 3
  /\ s_rounds[0] = 2 /\ s_data[2] = << 1, 2, 3 >>

\* C20: small_inclusive_scan_n and small_exclusive_scan_n never write data[j]
\* for j >= n; with n == 0 they write nothing (and small_exclusive_scan_n
\* returns init).
C20_NoWriteBeyondN ==
  /\ s_written \subseteq 0 .. s_n - 1
  /\ \A j \in s_n .. s_size - 1 : s_data[j] = << j + 1 >>
  /\ (SmallDone /\ s_n = 0 /\ s_fn = "small_exclusive_scan_n") =>
       \A t \in SAgents : s_result[t] = s_init

\* two of four elements scanned: exactly data[0] and data[1] were written
C20_Witness ==
  /\ SmallDone /\ s_fn = "small_exclusive_scan_n" /\ s_size = 4 /\ s_n = 2
  /\ s_written = { 0, 1 } /\ s_data[3] = << 4 >>

\* ------------------------------------------------- claims about the cooperative merge
\* thread t has passed the first barrier of bounded_inplace_merge
PastMerge(t) == mpc[t] \in { "store", "ret" } \/ (mpc[t] = "back" /\ ~marrived[t])

\* thread t has passed the second barrier of bounded_inplace_merge
PastBackCopy(t) == mpc[t] = "ret" \/ (mpc[t] = "store" /\ ~marrived[t])

\* C13: in bounded_inplace_merge every read of the staged ranges by the merge
\* path search and the serial merge happens before the first barrier and every
\* write of the copy back after it, and the second barrier puts every write of
\* the copy back before the cooperative copy to the output: no thread writes
\* a staged index that another thread reads or writes between the same two
\* barriers.
C13_MergeRaceFree ==
  /\ \A t, u \in Threads : t # u => m_wr[t] \cap (m_rd[u] \cup m_wr[u]) = {}
  /\ \A t, u \in Threads :
       /\ PastMerge(t) => mpc[u] \in { "back", "store", "ret" }
       /\ PastBackCopy(t) => mpc[u] \in { "store", "ret" }
       /\ (mpc[t] = "back" /\ marrived[t]) => m_wr[t] = {}
       /\ (mpc[t] = "store" /\ marrived[t]) => m_rd[t] = {}

\* thread 1 has copied its slice back while thread 0, which read staged
\* elements in the phase before, has not yet written
C13_Witness ==
  /\ NT = 2 /\ VT = 2 /\ aCount = 2 /\ bCount = 2
  /\ mpc[1] = "store" /\ marrived[1] /\ m_wr[1] = { 2, 3 }
  /\ mpc[0] = "back" /\ ~marrived[0] /\ m_rd[0] = {}

\* the staged indices thread t copies back
BackSlice(t) == { VT * t + j : j \in 0 .. m_local_size(t) - 1 }

\* thread t has computed its co-ranks
HasOffsets(t) == mpc[t] \in { "back", "store", "ret" }

\* C17: the co-rank pair of thread t, (local_offset1, local_offset2 - n1), sums
\* to grainsize * t and both components are non-decreasing in t; the slices
\* [G*t, G*t + local_size_t) with local_size_t = max(0, min(G, n1+n2-G*t)) are
\* pairwise disjoint and their union is [0, n1+n2), so the copy back writes
\* every staged output index by exactly one thread and no index >= n1+n2.
C17_MergePartition ==
  /\ \A t \in Threads :
       HasOffsets(t) => local_offset1[t] + (local_offset2[t] - aCount) = VT * t
  /\ \A t, u \in Threads :
       (HasOffsets(t) /\ HasOffsets(u) /\ t < u) =>
          /\ local_offset1[t] <= local_offset1[u]
          /\ local_offset2[t] <= local_offset2[u]
  /\ \A t, u \in Threads : t # u => BackSlice(t) \cap BackSlice(u) = {}
  /\ UNION { BackSlice(t) : t \in Threads } = 0 .. aCount + bCount - 1
  /\ \A t \in Threads : (mpc[t] = "store" /\ marrived[t]) => m_wr[t] = BackSlice(t)

\* three staged elements for two threads of grainsize two: thread 1 owns one
\* index, and its co-ranks lie beyond those of thread 0
C17_Witness ==
  /\ NT = 2 /\ VT = 2 /\ aCount = 2 /\ bCount = 1
  /\ mpc[0] = "store" /\ marrived[0] /\ m_wr[0] = { 0, 1 }
  /\ mpc[1] = "store" /\ marrived[1] /\ m_wr[1] = { 2 }
  /\ local_offset1[1] + local_offset2[1] > local_offset1[0] + local_offset2[0]

\* ------------------------------------------------- claims about the barriers
\* the agents that meet at a barrier have made the same number of barrier
\* calls, and no agent makes more barrier calls than one that has returned
UniformWaits ==
  /\ pc[0] # "idle" =>
       /\ (\A t \in Agents : arrived[t]) => \A t, u \in Agents : waits[t] = waits[u]
       /\ \A t, u \in Agents : pc[t] = "ret" => waits[u] <= waits[t]
  /\ s_pc[0] # "idle" =>
       /\ (\A t \in SAgents : s_arrived[t]) => \A t, u \in SAgents : s_waits[t] = s_waits[u]
       /\ \A t, u \in SAgents :
            (s_pc[t] = "ret" /\ ~s_arrived[t]) => s_waits[u] <= s_waits[t]
  /\ mpc[0] # "idle" =>
       /\ (\A t \in Threads : marrived[t]) => \A t, u \in Threads : m_waits[t] = m_waits[u]
       /\ \A t, u \in Threads :
            (mpc[t] = "ret" /\ ~marrived[t]) => m_waits[u] <= m_waits[t]

\* every agent of the group has returned from the last call of its caller
AllReturned ==
  \/ pc[0] # "idle" /\ CallDone /\ (callNo = 2 \/ scenario = "noinit")
  \/ s_pc[0] # "idle" /\ SmallDone /\ ~FirstCallDone
  \/ mpc[0] # "idle" /\ BlockDone

\* C12: in the small scans, the tiled scans and the cooperative merge, for
\* every n and input length (0 and partial tiles too), all agents of the group
\* make the same number of barrier calls, whatever their index and whether or
\* not they own an element; so no agent stays blocked at a barrier and every
\* agent eventually returns.
C12_BarrierUniformityAndProgress == [] UniformWaits /\ <> AllReturned

\* a tile of one element for three agents: the two agents without element
\* have made the nine barrier calls of the tile as well
C12_Witness ==
  /\ pc[0] # "idle" /\ CallDone /\ callNo = 1 /\ scenario = "inclusive"
  /\ groupsize = 3 /\ grainsize = 2 /\ L = 1 /\ split = 1
  /\ \A t \in Agents : waits[t] = 9

\* every agent has returned from small_inplace_exclusive_scan_with_buffer
SecondCallDone == s_call = 2 /\ SmallDone

\* C21: for every group size N (power of two or not) and every initial
\* contents of the buffer, small_inplace_exclusive_scan_with_buffer<N> leaves in
\* first[0..N) the values small_exclusive_scan_n(g, first, N, init, op) leaves
\* there on the same entry contents, and returns to every agent the value
\* small_exclusive_scan_n returns to it
C21_SmallScansEquivalent ==
  SecondCallDone =>
    /\ s_data = s_ref.data
    /\ \A t \in SAgents : s_result[t] = s_ref.result[t]

\* a group of three agents (not a power of two) has finished both calls
C21_Witness ==
  /\ SecondCallDone /\ s_size = 3
  /\ s_ref.data[2] = << 0, 1, 2 >> /\ s_data[2] = << 0, 1, 2 >>
  /\ s_result[1] = << 0, 1, 2, 3 >> /\ s_rounds[0] = 2

\* the arguments carry_in and first of the current call of
\* inclusive_scan_with_buffer / exclusive_scan_with_buffer
CallInit(t) == IF scenario = "noinit" THEN input[ArgFirst] ELSE init[t]

CallFirst == IF scenario = "noinit" THEN ArgFirst + 1 ELSE ArgFirst

\* agent t is inside a tile and has not yet taken the small scan's result as
\* its carry: carry_in[t] is the carry the tile started with
InTile(t) ==
  /\ pc[t] \in { "stage", "fold", "scan_init", "scan_round", "scan_total",
                 "scan_shift", "rewalk" }
  /\ first[t] < ArgLast

\* the number of the tile agent t is in
Tile(t) == (first[t] - CallFirst) \div elements_per_group

\* C22: at the start of every tile k of inclusive_scan_with_buffer /
\* exclusive_scan_with_buffer, and until the small scan's result replaces it,
\* every agent holds as carry_in the call's init combined from the left with
\* all elements of the tiles 0 .. k - 1 (init itself for k = 0), and the agents
\* that are in the same tile hold the same carry_in
C22_CarryAgreement ==
  \A t \in Agents :
    InTile(t) =>
      /\ carry_in[t] = LeftFold(CallInit(t), CallFirst, CallFirst + Tile(t) * elements_per_group)
      /\ first[t] = CallFirst + Tile(t) * elements_per_group
      /\ \A u \in Agents : (InTile(u) /\ Tile(u) = Tile(t)) => carry_in[u] = carry_in[t]

\* three agents with two elements each are at the start of tile 1, the last
\* and partial one, and hold init combined with the six elements of tile 0
C22_Witness ==
  /\ groupsize = 3 /\ grainsize = 2 /\ L = 7 /\ split = 7 /\ callNo = 1
  /\ scenario = "exclusive"
  /\ \A t \in Agents : InTile(t) /\ Tile(t) = 1 /\ pc[t] = "stage"
  /\ carry_in[2] = << 0, 1, 2, 3, 4, 5, 6 >>

\* the three regions of the scratch buffer, as sets of slot indices
SumsRegion == SumsBase .. SumsBase + groupsize - 1

PingPongRegion == PongBase .. PongBase + groupsize - 1

StagingRegion == SharedBase .. SharedBase + elements_per_group - 1

\* the indices of the scratch slots agent t has accessed since the last barrier
Touched(t) == { a[2] : a \in { b \in rd[t] \cup wr[t] : b[1] = "buffer" } }

\* C23: the per-agent sums, the second buffer of the small scan and the staging
\* region are pairwise disjoint parts of the allocated buffer; every scratch
\* access is inside the buffer; the small scan accesses only the 2*groupsize
\* sum slots; outside the small scan an agent accesses only its own sum slot
\* and staging slots below partition_size, which is at most
\* groupsize * grainsize.
C23_ScratchLayout ==
  /\ SumsRegion \cap PingPongRegion = {}
  /\ SumsRegion \cap StagingRegion = {}
  /\ PingPongRegion \cap StagingRegion = {}
  /\ SumsRegion \cup PingPongRegion \cup StagingRegion \subseteq DOMAIN buffer
  /\ \A t \in Agents :
       /\ Touched(t) \subseteq DOMAIN buffer
       /\ InSmallScan(t) => Touched(t) \subseteq SumsRegion \cup PingPongRegion
       /\ ~InSmallScan(t) =>
            \A k \in Touched(t) :
              \/ k = SumsBase + t
              \/ /\ k - SharedBase \in 0 .. partition_size(t) - 1
                 /\ partition_size(t) <= groupsize * grainsize

\* in the partial second tile of three agents with two elements each (one
\* element staged at staging index 0), agent 2, which owns no element, has read
\* the total at the last slot of the buffer the last round wrote, and agent 0
\* has read the total and the slot before its own
C23_Witness ==
  /\ groupsize = 3 /\ grainsize = 2 /\ L = 7 /\ split = 7 /\ callNo = 1
  /\ first[0] = 6 /\ first[2] = 6 /\ partition_size(2) = 1
  /\ pc[2] = "scan_shift" /\ arrived[2]
  /\ Touched(2) = { ping[2] + groupsize - 1, ping[2] + 1 }
  /\ pc[0] = "scan_shift" /\ arrived[0]
  /\ Touched(0) = { ping[0] + groupsize - 1 }

\* agent t owns at least one element of the tile it is in
Owns(t) == grainsize * t < partition_size(t)

\* the tile agent t is in is a partial one
PartialTile(t) == partition_size(t) < elements_per_group

\* the value the scan stores for the element at position i of the input: the
\* call's init combined from the left with the elements before i, and with the
\* element at i in an inclusive scan
Prefix(t, i) ==
  LeftFold(CallInit(t), CallFirst, IF Kind = "inclusive" THEN i + 1 ELSE i)

\* C24: in a partial tile an agent that owns no element does not write its sum
\* slot; the prefix an owning agent reads back from its sum slot after the
\* small scan is the tile's carry_in combined from the left with the elements
\* of the agents 0 .. t - 1, whatever the scratch buffer held before; the
\* values the agent then writes to staging, and the outputs of the call, are
\* the prefixes of the input under the call's init, whatever the scratch
\* buffer held before.
C24_PartialTileIndependence ==
  /\ \A t \in Agents :
       /\ (pc[t] = "scan_init" /\ arrived[t] /\ first[t] < ArgLast /\ ~Owns(t))
            => Slot(SumsBase + t) \notin wr[t]
       /\ (pc[t] = "rewalk" /\ ~arrived[t] /\ Owns(t))
            => buffer[SumsBase + t]
                 = LeftFold(carry_in[t], first[t], first[t] + local_offset(t))
       /\ (pc[t] = "copy_out" /\ arrived[t])
            => \A k \in OwnSlots(t) :
                 buffer[k] = Prefix(t, first[t] + (k - SharedBase))
  /\ CallDone =>
       \A t \in Agents : \A i \in CallFirst .. ArgLast - 1 : out[Dst][i] = Prefix(t, i)

\* a partial second tile of three agents with two elements each, the buffer
\* holding the arbitrary value -1 before the call and the sums of the first
\* tile before this tile: agent 0 owns the one element and is about to read
\* its prefix back, agents 1 and 2 own nothing and their slots were not
\* written by the fold of this tile
C24_Witness ==
  /\ groupsize = 3 /\ grainsize = 2 /\ L = 7 /\ split = 7 /\ callNo = 1
  /\ scenario = "inclusive" /\ garbage = << -1 >>
  /\ \A t \in Agents : first[t] = 6 /\ pc[t] = "rewalk" /\ ~arrived[t] /\ PartialTile(t)
  /\ Owns(0) /\ ~Owns(1) /\ ~Owns(2)
  /\ buffer[SumsBase] = << 0, 1, 2, 3, 4, 5, 6 >>

\* thread t has finished the serial merge and waits at the first barrier
AfterSerialMerge(t) == mpc[t] = "back" /\ marrived[t]

\* the staged indices of the tile
Staged == 0 .. aCount + bCount - 1

\* C25: for every thread t of bounded_inplace_merge, also one whose diagonal
\* grainsize * t exceeds n1 + n2, the sub-ranges handed to bounded_merge are
\* well formed (0 <= local_offset1 <= n1, n1 <= local_offset2 <= n1 + n2) and
\* every element the co-rank search and bounded_merge read, its initial loads
\* of first1[0] and first2[0] included, lies at a staged index in [0, n1 + n2).
C25_BoundedReads ==
  \A t \in Threads :
    /\ HasOffsets(t) =>
         /\ 0 <= local_offset1[t] /\ local_offset1[t] <= aCount
         /\ aCount <= local_offset2[t] /\ local_offset2[t] <= aCount + bCount
    /\ AfterSerialMerge(t) => m_rd[t] \subseteq Staged

\* the same for the threads whose diagonal lies on the tile
C25_BoundedReadsOnTile ==
  \A t \in Threads :
    VT * t <= aCount + bCount =>
      /\ HasOffsets(t) =>
           /\ 0 <= local_offset1[t] /\ local_offset1[t] <= aCount
           /\ aCount <= local_offset2[t] /\ local_offset2[t] <= aCount + bCount
      /\ AfterSerialMerge(t) => m_rd[t] \subseteq Staged

====
